---- MODULE Spec2Model ----
(***************************************************************************)
(* State-machine model of telefonbuch-scraper.py: the query-name           *)
(* enumeration, the per-key page loop of main_inner, the flattening of a   *)
(* page by parse_address and the sql_rows loop, and the SQLite store with  *)
(* its open transaction (BEGIN EXCLUSIVE ... commit).                      *)
(*                                                                         *)
(* Specifications: Spec and SpecDet (one scraper, a server that answers    *)
(* freely or repeats its answers), SpecPoll (the polling loop of           *)
(* get_search_results), SpecTwo (two scrapers on one database file),       *)
(* SpecEnum, SpecSearch and SpecField (the key enumeration, the request of *)
(* a search and the extraction of one column, each on its own).            *)
(***************************************************************************)
EXTENDS Integers, Sequences, FiniteSets, TLC

VARIABLES
    pc,               \* position of the scraper process in main_inner
    alphabet,         \* query_name_alphabet of this configuration
    length,           \* query_name_length of this configuration
    query_name_list,  \* the list built at lines 612-617
    query_idx,        \* 1-based index of the for loop at line 622
    query_offset,     \* loop variable of the page loop, line 664
    offsets,          \* the range object of line 664, fixed when the loop starts
    loop_idx,         \* line 662/666
    num_results,      \* last <hitcount> read by get_search_results
    xml_bytes,        \* last response returned by get_search_results
    sql_rows,         \* rows built at lines 764-782 for the current page
    row_query_offset, \* counter of lines 765/782 after the sql_rows loop
    db_committed,     \* rows of telefonbuch_scrape that are durable
    db_batch,         \* rows inserted in the open transaction (uncommitted)
    err,              \* how the last run ended abnormally, "" otherwise
    requests,         \* search requests sent by the current run
    present_at_start, \* query names with a committed row when the run started
    tx_open_max,      \* MAX(id) of the store when the open transaction began
    last_commit,      \* the durable rows right after the latest commit
    rolled_back,      \* TRUE: the rollback at the last exit discarded rows
    attempt,          \* pages flattened for the key in progress
    complete,         \* per committed key: what its committing attempt covered
    deterministic,    \* TRUE: the server answers a repeated request identically
    answers,          \* the server's answers so far, per <<name, offset>>
    retry_idx,        \* loop variable of the polling loop, line 448
    elem_text,        \* one column of an <address> element, as find() sees it
    row_col,          \* row[col] as lines 233-236 store it
    db_lock,          \* the connection holding the EXCLUSIVE lock, 0 if none
    procs,            \* two scraper instances on one database file
    db_file,          \* the rows committed to that database file
    server_process,   \* the global of line 133: None or the Popen object
    service,          \* the backing service: running or not, its page size
    sessionid,        \* the local of main_inner, lines 294 and 584
    trace,            \* what the run did so far to the service and the store
    csv_state,        \* csv2sqlite.py: the CSV, the locals of csv_to_sqlite, the table
    split_state       \* split-text-file.py and join-telefonbuch-csv-parts.py

vars == <<pc, alphabet, length, query_name_list, query_idx, query_offset,
          offsets, loop_idx, num_results, xml_bytes, sql_rows,
          row_query_offset, db_committed, db_batch, err, requests,
          present_at_start, tx_open_max, last_commit, rolled_back,
          attempt, complete, deterministic, answers, retry_idx, elem_text,
          row_col, db_lock, procs, db_file, server_process, service,
          sessionid, trace, csv_state, split_state>>

(***************************************************************************)
(* Configuration                                                           *)
(***************************************************************************)

\* Python None
None == -1

\* page size; the program runs with 15 (lines 62-63), the model with a
\* smaller page so that full pages and second pages are reachable
max_results_per_page == 2

results_per_page == max_results_per_page

\* the program's alphabet has 40 characters; the model keeps one letter and
\* one digit of it
query_name_alphabet == <<"a", "1">>

query_name_length == 2

\* string.digits
digits == {"0", "1", "2", "3", "4", "5", "6", "7", "8", "9"}

(***************************************************************************)
(* Bounds of the model                                                     *)
(***************************************************************************)

\* most top-level <address> nodes the server puts on one page
MaxTopLevel == 2

\* longest key length the enumerator is tried with
MaxKeyLen == 2

\* largest query_offset get_search_results is tried with
MaxOffset == 6

\* longest text of a column element
MaxTextLen == 4

Min(a, b) == IF a < b THEN a ELSE b

Range(s) == {s[i] : i \in DOMAIN s}

(***************************************************************************)
(* QuerySpace enumerator, lines 612-617                                    *)
(***************************************************************************)

RECURSIVE Extend(_, _)
\* one prefix extended by every character of the pool, in pool order
Extend(prefix, pool) ==
    IF pool = <<>> THEN <<>>
    ELSE <<prefix \o <<Head(pool)>>>> \o Extend(prefix, Tail(pool))

RECURSIVE ExtendAll(_, _)
ExtendAll(prefixes, pool) ==
    IF prefixes = <<>> THEN <<>>
    ELSE Extend(Head(prefixes), pool) \o ExtendAll(Tail(prefixes), pool)

RECURSIVE product(_, _)
\* itertools.product(pool, repeat=n): the rightmost position varies fastest
product(pool, n) ==
    IF n = 0 THEN << <<>> >> ELSE ExtendAll(product(pool, n - 1), pool)

\* the digit test applied to the last character
EndsWithDigit(name) == name[Len(name)] \in digits

\* line 615: query_name[0] in string.digits -> continue
StartsWithDigit(name) == name[1] \in digits

RECURSIVE DropDigitNames(_)
DropDigitNames(names) ==
    IF names = <<>> THEN <<>>
    ELSE IF StartsWithDigit(Head(names)) THEN DropDigitNames(Tail(names))
    ELSE <<Head(names)>> \o DropDigitNames(Tail(names))

BuildQueryNameList(pool, n) == DropDigitNames(product(pool, n))

(***************************************************************************)
(* The server's documents                                                  *)
(***************************************************************************)

Leaf(t) == [recordtype |-> t, address |-> <<>>]

Node(t, children) == [recordtype |-> t, address |-> children]

\* <address> trees the server sends: a single entry, and a parent with two
\* children, the first of which has a child of its own
AddressTrees ==
    { Leaf("single"),
      Node("parent", <<Node("child", <<Leaf("child")>>), Leaf("child")>>) }

PageTop == Min(MaxTopLevel, results_per_page)

\* .//entries/address of one response: at most a page of top-level nodes
Pages == UNION {[1..n -> AddressTrees] : n \in 0..PageTop}

\* <hitcount> values: no result, less than a page, exactly one page
HitCounts == {0, results_per_page - 1, results_per_page}

\* a <perpage> value the scraper did not configure
OtherPerPage == 2 * results_per_page

\* answers to a search: a page of results, no result, a response without
\* <hitcount>, a page of another page size
Responses ==
    [hitcount : HitCounts \ {0}, perpage : {results_per_page},
     addresses : Pages]
    \cup [hitcount : {0}, perpage : {results_per_page}, addresses : {<<>>}]
    \cup [hitcount : {None}, perpage : {results_per_page}, addresses : {<<>>}]
    \cup [hitcount : HitCounts \ {0}, perpage : {OtherPerPage},
          addresses : {<<Leaf("single")>>}]

NoResponse == [hitcount |-> None, perpage |-> None, addresses |-> <<>>]

(***************************************************************************)
(* Flattening, parse_address (lines 218-246)                               *)
(***************************************************************************)

\* a counter that counts down
IncrementDown(next_id) == next_id - 1

\* a counter that leaves a gap after every id
IncrementByTwo(next_id) == next_id + 2

\* NextIdCounter.increment
Increment(next_id) == next_id + 1

\* a row that names itself as its parent
MakeRowOwnParent(current_id, parent_id, address_elem) ==
    [id |-> current_id, parent_id |-> current_id,
     recordtype |-> address_elem.recordtype]

\* lines 230-236: the row of one element
MakeRow(current_id, parent_id, address_elem) ==
    [id |-> current_id, parent_id |-> parent_id,
     recordtype |-> address_elem.recordtype]

RECURSIVE parse_address(_, _, _)
RECURSIVE parse_children(_, _, _)

\* rows of one <address> element and the counter value afterwards
parse_address(address_elem, next_id, parent_id) ==
    LET current_id == next_id
        row == MakeRow(current_id, parent_id, address_elem)
        sub == parse_children(address_elem.address, Increment(next_id),
                              current_id)
    IN [rows |-> <<row>> \o sub.rows, next_id |-> sub.next_id]

\* the loop of lines 242-244 over the direct child <address> elements
parse_children(children, next_id, parent_id) ==
    IF children = <<>> THEN [rows |-> <<>>, next_id |-> next_id]
    ELSE LET first == parse_address(Head(children), next_id, parent_id)
             rest == parse_children(Tail(children), first.next_id, parent_id)
         IN [rows |-> first.rows \o rest.rows, next_id |-> rest.next_id]

RECURSIVE AllRows(_, _)
\* lines 744-752: every top-level address, one shared counter
AllRows(addresses, next_id) ==
    IF addresses = <<>> THEN <<>>
    ELSE LET first == parse_address(Head(addresses), next_id, None)
         IN first.rows \o AllRows(Tail(addresses), first.next_id)

(***************************************************************************)
(* The sql_rows loop, lines 764-782                                        *)
(***************************************************************************)

\* the child branch assigning 0 instead of incrementing
NextChildNumZero(row, query_child_num) == 0

\* the child branch assigning 1 instead of incrementing
NextChildNumOne(row, query_child_num) ==
    IF row.parent_id = None THEN 0 ELSE 1

\* a child number that is never reset
NextChildNumNoReset(row, query_child_num) == query_child_num + 1

\* lines 768-773
NextChildNum(row, query_child_num) ==
    IF row.parent_id = None THEN 0 ELSE query_child_num + 1

\* the offset never incremented
NextRowOffsetNever(row, offset) == offset

\* the offset incremented for every row
NextRowOffsetEveryRow(row, offset) == offset + 1

\* lines 780-782
NextRowOffset(row, offset) ==
    IF row.parent_id = None THEN offset + 1 ELSE offset

SqlRow(query_name, offset, child_num, row) ==
    [query_name |-> query_name, query_offset |-> offset,
     query_child_num |-> child_num, id |-> row.id,
     parent_id |-> row.parent_id, recordtype |-> row.recordtype]

RECURSIVE SqlRowsLoop(_, _, _, _)
SqlRowsLoop(all_rows, query_name, offset, child_num) ==
    IF all_rows = <<>> THEN [rows |-> <<>>, row_query_offset |-> offset]
    ELSE LET row == Head(all_rows)
             num == NextChildNum(row, child_num)
             rest == SqlRowsLoop(Tail(all_rows), query_name,
                                 NextRowOffset(row, offset), num)
         IN [rows |-> <<SqlRow(query_name, offset, num, row)>> \o rest.rows,
             row_query_offset |-> rest.row_query_offset]

SqlRows(all_rows, query_name, offset) ==
    SqlRowsLoop(all_rows, query_name, offset, 0)

(***************************************************************************)
(* The store                                                               *)
(***************************************************************************)

\* what the scraper's connection reads: committed rows and its own inserts
Table == db_committed \cup db_batch

\* line 728: SELECT COALESCE(MAX(id), 0) FROM telefonbuch_scrape
MaxId(table) ==
    IF table = {} THEN 0
    ELSE CHOOSE m \in {r.id : r \in table} : \A r \in table : r.id <= m

\* an id prediction that is off by one
NextIdSkipsOne(table) == MaxId(table) + 2

\* line 728: ... + 1
NextId(table) == MaxId(table) + 1

\* a resume check that only sees rows with a parent
HasKeyChildRows(table, name) ==
    \E r \in table : r.query_name = name /\ r.parent_id # None

\* a resume check without its WHERE clause
HasKeyAnyRow(table, name) == table # {}

\* lines 626-629: SELECT 1 FROM telefonbuch_scrape WHERE query_name = ?
HasKey(table, name) == \E r \in table : r.query_name = name

\* id INTEGER PRIMARY KEY (line 305) and the unique index of lines 319-327
Conflicts(table, row) ==
    \E r \in table :
        \/ r.id = row.id
        \/ /\ r.query_name = row.query_name
           /\ r.query_offset = row.query_offset
           /\ r.query_child_num = row.query_child_num

\* an INSERT on a connection in autocommit mode: durable at once
StoreAfterInsertAutocommit(committed, batch, row) ==
    [committed |-> committed \cup batch \cup {row}, batch |-> {}]

\* line 784: one INSERT of executemany inside the open transaction
StoreAfterInsert(committed, batch, row) ==
    [committed |-> committed, batch |-> batch \cup {row}]

RECURSIVE InsertAllOrIgnore(_, _, _)
\* executemany of an INSERT OR IGNORE statement: a rejected row is skipped
InsertAllOrIgnore(committed, batch, rows) ==
    IF rows = <<>>
    THEN [ok |-> TRUE, committed |-> committed, batch |-> batch]
    ELSE IF \E r \in committed \cup batch :
                \/ r.id = Head(rows).id
                \/ /\ r.query_name = Head(rows).query_name
                   /\ r.query_offset = Head(rows).query_offset
                   /\ r.query_child_num = Head(rows).query_child_num
    THEN InsertAllOrIgnore(committed, batch, Tail(rows))
    ELSE InsertAllOrIgnore(committed, batch \cup {Head(rows)}, Tail(rows))

RECURSIVE InsertAll(_, _, _)
\* line 784: executemany, row after row until one is rejected
InsertAll(committed, batch, rows) ==
    IF rows = <<>>
    THEN [ok |-> TRUE, committed |-> committed, batch |-> batch]
    ELSE IF Conflicts(committed \cup batch, Head(rows))
    THEN [ok |-> FALSE, committed |-> committed, batch |-> batch]
    ELSE LET after == StoreAfterInsert(committed, batch, Head(rows))
         IN InsertAll(after.committed, after.batch, Tail(rows))

\* a response without <hitcount> taken for a result
NoHitcountNever(resp) == FALSE

\* lines 457-462: num_results_regex does not match the response
NoHitcount(resp) == resp.hitcount = None

\* a page loop that fetches every page, the first one included
RefetchAlways(idx) == TRUE

\* lines 670-671: if loop_idx > 0, the page is fetched; the first page is
\* the response of line 644
Refetch(idx) == idx > 0

\* a first page with no result treated like any other page
NoResultsNever(num) == FALSE

\* line 646: num_results == 0 after the first search of a key
NoResults(num) == num = 0

\* a page-size check that accepts every page
PerPageMismatchNever(xml) == FALSE

\* lines 733-736: the response has a <perpage> tag and its value is not the
\* configured page size
PerPageMismatch(xml) ==
    xml.perpage # None /\ xml.perpage # results_per_page

\* a commit that replaces the committed rows by the batch
StoreAfterCommitReplace(committed, batch) ==
    [committed |-> batch, batch |-> {}]

\* a commit that drops the rows of the transaction
StoreAfterCommitLost(committed, batch) ==
    [committed |-> committed, batch |-> {}]

\* line 793: commit makes the rows of the open transaction durable
StoreAfterCommit(committed, batch) ==
    [committed |-> committed \cup batch, batch |-> {}]

\* a page loop that stops before num_results
PyRangeExclusive(start, stop, step) ==
    [i \in 1..((stop - 1 - start + step - 1) \div step) |->
        start + (i - 1) * step]

\* line 664: range(0, num_results + 1, results_per_page)
RECURSIVE PyRange(_, _, _)
PyRange(start, stop, step) ==
    IF start >= stop THEN <<>>
    ELSE <<start>> \o PyRange(start + step, stop, step)

\* page numbers that start at 0
RequestPageFromZero(name, offset) ==
    IF offset = 0
    THEN [name |-> name, offset |-> offset, btn |-> "btnhidden",
          btnpage |-> None]
    ELSE [name |-> name, offset |-> offset, btn |-> "btnpage",
          btnpage |-> offset \div max_results_per_page]

\* lines 433-442: the action parameters of a search request
Request(query_name, offset) ==
    IF offset = 0
    THEN [name |-> query_name, offset |-> offset, btn |-> "btnhidden",
          btnpage |-> None]
    ELSE [name |-> query_name, offset |-> offset, btn |-> "btnpage",
          btnpage |-> 1 + (offset \div max_results_per_page)]

\* the answers the server may give to a request
ServerAnswers(query_name, offset) ==
    IF deterministic /\ <<query_name, offset>> \in DOMAIN answers
    THEN {answers[<<query_name, offset>>]}
    ELSE Responses

Remember(query_name, offset, resp) ==
    IF deterministic /\ <<query_name, offset>> \notin DOMAIN answers
    THEN answers @@ (<<query_name, offset>> :> resp)
    ELSE answers

NoAttempt == [T |-> None, offsets |-> {}, rows |-> {}]

Running ==
    pc \in {"next_key", "search", "fetch", "flatten", "insert", "inserted"}

query_name == query_name_list[query_idx]

\* line 448: range(1000)
retry_limit == 1000

\* a polling counter that starts over before it reaches the limit
NextRetryIdxWraps(idx) == (idx + 1) % 2

\* line 448: the next value of `for retry_idx in range(1000)`
NextRetryIdx(idx) == idx + 1

\* a polling loop with one more iteration
PollAgainOnceMore(idx) == idx <= retry_limit

\* line 448: the loop has an iteration left after idx responses that
\* carried the still-computing marker
PollAgain(idx) == idx < retry_limit

\* address_elem.find(col) found no element
NoElem == [found |-> FALSE, text |-> <<>>]

\* row[col] before lines 233-236 ran
NotStored == [stored |-> FALSE, null |-> FALSE, text |-> <<>>]

\* the scraper instances that share one database file
Instances == {1, 2}

\* the supervisor's global, the service, the session and the log of the run
LifeVars == <<server_process, service, sessionid, trace>>

\* the state of the two tools that work on the export
ToolVars == <<csv_state, split_state>>

\* csv_to_sqlite was not called
CsvIdle ==
    [pc |-> "off", rows |-> <<>>, batch_size |-> 0, reader |-> 0,
     next_rowid |-> 0, last_parent_rowid |-> None, table |-> <<>>]

\* split_file was not called
SplitIdle ==
    [pc |-> "off", input |-> <<>>, chunk_size |-> 0, parts |-> {},
     output |-> <<>>]

ToolsIdle == csv_state = CsvIdle /\ split_state = SplitIdle

\* no service process runs
ServiceDown == [up |-> FALSE, perpage |-> None]

\* an instance that was not started
NotStarted ==
    [pc |-> "off", query_idx |-> 0, query_offset |-> -1, num_results |-> -1,
     batch |-> {}]

\* the locals of main_inner other than its position, and its connection
ProcessVarsButPc ==
    <<alphabet, length, query_name_list, query_idx, query_offset, offsets,
      loop_idx, num_results, xml_bytes, sql_rows, row_query_offset,
      db_committed, db_batch, err, requests, present_at_start, tx_open_max,
      last_commit, rolled_back, attempt, complete, deterministic, answers,
      retry_idx>>

\* the variables of the other models, which the page loop of one instance
\* on its own database does not touch
OtherModels ==
    UNCHANGED <<elem_text, row_col, db_lock, procs, db_file, LifeVars, ToolVars>>

(***************************************************************************)
(* Initial state: the scraper is not running, the database file is new     *)
(***************************************************************************)

InitProcess ==
    /\ pc = "off"
    /\ query_name_list = <<>>
    /\ query_idx = 0
    /\ query_offset = -1
    /\ offsets = <<>>
    /\ loop_idx = -1
    /\ num_results = -1
    /\ xml_bytes = NoResponse
    /\ sql_rows = <<>>
    /\ row_query_offset = 0
    /\ db_committed = {}
    /\ db_batch = {}
    /\ err = ""
    /\ requests = {}
    /\ present_at_start = {}
    /\ tx_open_max = 0
    /\ last_commit = {}
    /\ rolled_back = FALSE
    /\ attempt = NoAttempt
    /\ complete = <<>>
    /\ retry_idx = 0
    /\ row_col = NotStored
    /\ db_lock = 0
    /\ procs = [i \in Instances |-> NotStarted]
    /\ db_file = {}
    /\ server_process = None
    /\ service = ServiceDown
    /\ sessionid = -1
    /\ trace = <<>>

\* the server has answered nothing yet and no column is being extracted
InitIdle ==
    /\ answers = <<>>
    /\ elem_text = NoElem
    /\ ToolsIdle

Init ==
    /\ InitProcess
    /\ InitIdle
    /\ alphabet = query_name_alphabet
    /\ length = query_name_length
    /\ deterministic = FALSE

(***************************************************************************)
(* Actions                                                                 *)
(***************************************************************************)

\* the locals of the page loop hold nothing that is read again: at the next
\* key lines 636-644 and 664-671 assign them before any use
LocalsDead ==
    /\ query_offset' = -1
    /\ offsets' = <<>>
    /\ loop_idx' = -1
    /\ num_results' = -1
    /\ xml_bytes' = NoResponse
    /\ sql_rows' = <<>>
    /\ row_query_offset' = 0

\* the process ends without commit: the locals are gone and SQLite rolls
\* the open transaction back
Exit(position, kind) ==
    /\ pc' = position
    /\ err' = kind
    /\ db_batch' = {}
    /\ rolled_back' = (db_batch # {})
    /\ query_idx' = 0
    /\ LocalsDead
    /\ attempt' = NoAttempt
    /\ UNCHANGED <<alphabet, length, query_name_list, db_committed,
                   present_at_start, tx_open_max, last_commit, complete,
                   deterministic>>

\* lines 280-327 and 584-617: start, connect, BEGIN EXCLUSIVE, schema,
\* session, key list
StartRun ==
    /\ pc \in {"off", "done", "aborted"}
    /\ pc' = "next_key"
    /\ err' = ""
    /\ query_name_list' = BuildQueryNameList(alphabet, length)
    /\ query_idx' = 1
    /\ requests' = {}
    /\ present_at_start' = {r.query_name : r \in db_committed}
    /\ tx_open_max' = MaxId(db_committed)
    /\ db_batch' = {}
    /\ rolled_back' = FALSE
    /\ UNCHANGED <<alphabet, length, query_offset, offsets, loop_idx,
                   num_results, xml_bytes, sql_rows, row_query_offset,
                   db_committed, last_commit, attempt, complete,
                   deterministic, answers>>
    /\ retry_idx' = 0
    /\ OtherModels

\* lines 622-638: the resume check of one key
CheckKey ==
    /\ pc = "next_key"
    /\ query_idx <= Len(query_name_list)
    /\ IF HasKey(Table, query_name)
       THEN /\ query_idx' = query_idx + 1
            /\ UNCHANGED <<pc, query_offset, num_results>>
       ELSE /\ pc' = "search"
            /\ query_offset' = 0
            /\ num_results' = -1
            /\ UNCHANGED query_idx
    /\ UNCHANGED <<alphabet, length, query_name_list, offsets, loop_idx,
                   xml_bytes, sql_rows, row_query_offset, db_committed, db_batch, err, requests, present_at_start,
                   tx_open_max, last_commit, rolled_back, attempt, complete,
                   deterministic, answers>>
    /\ UNCHANGED retry_idx
    /\ OtherModels

\* line 622 exhausted: main_inner returns and the process ends
Finish ==
    /\ pc = "next_key"
    /\ query_idx > Len(query_name_list)
    /\ Exit("done", "")
    /\ UNCHANGED <<requests, answers>>
    /\ UNCHANGED retry_idx
    /\ OtherModels

\* lines 644-664: the first search of a key
StartSearch ==
    /\ pc = "search"
    /\ \E resp \in ServerAnswers(query_name, query_offset) :
        /\ requests' = requests \cup {Request(query_name, query_offset)}
        /\ answers' = Remember(query_name, query_offset, resp)
        /\ IF NoHitcount(resp)
           THEN Exit("aborted", "SystemExit")
           ELSE /\ IF NoResults(resp.hitcount)
                   THEN /\ query_idx' = query_idx + 1
                        /\ pc' = "next_key"
                        /\ LocalsDead
                        /\ UNCHANGED attempt
                   ELSE /\ pc' = IF Refetch(0) THEN "fetch" ELSE "flatten"
                        /\ num_results' = resp.hitcount
                        /\ xml_bytes' = resp
                        /\ offsets' = PyRange(0, resp.hitcount + 1,
                                              results_per_page)
                        /\ loop_idx' = 0
                        /\ attempt' = [T |-> resp.hitcount, offsets |-> {},
                                       rows |-> {}]
                        /\ UNCHANGED <<query_idx, query_offset, sql_rows,
                                       row_query_offset>>
                /\ UNCHANGED <<alphabet, length, query_name_list,
                               db_committed, db_batch, err,
                               present_at_start, tx_open_max, last_commit, rolled_back,
                               complete, deterministic>>
    /\ PollAgain(retry_idx)
    /\ retry_idx' = 0
    /\ OtherModels

\* lines 670-671: the search of a later page
FetchPage ==
    /\ pc = "fetch"
    /\ \E resp \in ServerAnswers(query_name, query_offset) :
        /\ requests' = requests \cup {Request(query_name, query_offset)}
        /\ answers' = Remember(query_name, query_offset, resp)
        /\ IF NoHitcount(resp)
           THEN Exit("aborted", "SystemExit")
           ELSE /\ num_results' = resp.hitcount
                /\ xml_bytes' = resp
                /\ pc' = "flatten"
                /\ UNCHANGED <<alphabet, length, query_name_list, query_idx,
                               query_offset, offsets, loop_idx, sql_rows,
                               row_query_offset, db_committed,
                               db_batch, err, present_at_start, tx_open_max,
                               last_commit, rolled_back, attempt, complete, deterministic>>
    /\ PollAgain(retry_idx)
    /\ retry_idx' = 0
    /\ OtherModels

\* lines 726-782: id prediction, page-size check, flattening, sql_rows
FlattenPage ==
    /\ pc = "flatten"
    /\ IF PerPageMismatch(xml_bytes)
       THEN Exit("aborted", "AssertionError")
       ELSE LET all_rows == AllRows(xml_bytes.addresses, NextId(Table))
                built == SqlRows(all_rows, query_name, query_offset)
            IN /\ sql_rows' = built.rows
               /\ row_query_offset' = built.row_query_offset
                          /\ pc' = "insert"
               /\ attempt' = [attempt EXCEPT
                                !.offsets = @ \cup {query_offset},
                                !.rows = @ \cup Range(built.rows)]
               /\ UNCHANGED <<alphabet, length, query_name_list, query_idx,
                              query_offset, offsets, loop_idx, num_results,
                              xml_bytes, db_committed, db_batch, err,
                              present_at_start, tx_open_max, last_commit, rolled_back,
                              complete, deterministic>>
    /\ UNCHANGED <<requests, answers>>
    /\ UNCHANGED retry_idx
    /\ OtherModels

\* line 784: executemany inserts the rows in order; a row the primary key
\* or the unique index rejects raises IntegrityError
Executemany ==
    /\ pc = "insert"
    /\ LET after == InsertAll(db_committed, db_batch, sql_rows)
       IN IF ~after.ok
          THEN Exit("aborted", "IntegrityError")
          ELSE /\ db_committed' = after.committed
               /\ db_batch' = after.batch
               /\ pc' = "inserted"
               /\ UNCHANGED <<alphabet, length, query_name_list,
                              query_idx, query_offset, offsets, loop_idx,
                              num_results, xml_bytes, sql_rows,
                              row_query_offset, err, present_at_start,
                              tx_open_max, last_commit, rolled_back, attempt,
                              complete, deterministic>>
    /\ UNCHANGED <<requests, answers>>
    /\ UNCHANGED retry_idx
    /\ OtherModels

\* line 664: the page loop advances to its next offset
NextPage ==
    /\ pc = "inserted"
    /\ loop_idx + 1 < Len(offsets)
    /\ loop_idx' = loop_idx + 1
    /\ query_offset' = offsets[loop_idx + 2]
    /\ pc' = IF Refetch(loop_idx + 1) THEN "fetch" ELSE "flatten"
    /\ UNCHANGED <<alphabet, length, query_name_list, query_idx, offsets,
                   num_results, xml_bytes, sql_rows, row_query_offset,
                   db_committed, db_batch, err, requests,
                   present_at_start, tx_open_max, last_commit, rolled_back, attempt,
                   complete, deterministic, answers>>
    /\ UNCHANGED retry_idx
    /\ OtherModels

\* lines 790-797: commit of the key, BEGIN EXCLUSIVE for the next one
Commit ==
    /\ pc = "inserted"
    /\ loop_idx + 1 >= Len(offsets)
    /\ LET after == StoreAfterCommit(db_committed, db_batch)
       IN /\ db_committed' = after.committed
          /\ db_batch' = after.batch
          /\ last_commit' = after.committed
          /\ tx_open_max' = MaxId(after.committed)
    /\ complete' = (query_name :> attempt) @@ complete
    /\ attempt' = NoAttempt
    /\ query_idx' = query_idx + 1
    /\ pc' = "next_key"
    /\ LocalsDead
    /\ UNCHANGED <<alphabet, length, query_name_list, err, requests,
                   rolled_back,
                   present_at_start, deterministic, answers>>
    /\ UNCHANGED retry_idx
    /\ OtherModels

\* the process is killed from outside (signal, power loss) at any point
Kill ==
    /\ Running
    /\ Exit("aborted", "killed")
    /\ UNCHANGED <<requests, answers>>
    /\ retry_idx' = 0
    /\ OtherModels

Next ==
    \/ StartRun
    \/ CheckKey
    \/ Finish
    \/ StartSearch
    \/ FetchPage
    \/ FlattenPage
    \/ Executemany
    \/ NextPage
    \/ Commit
    \/ Kill

Spec == Init /\ [][Next]_vars

(***************************************************************************)
(* The same scraper against a server that answers a repeated request the   *)
(* same way                                                                *)
(***************************************************************************)

InitDet ==
    /\ InitProcess
    /\ InitIdle
    /\ alphabet = query_name_alphabet
    /\ length = query_name_length
    /\ deterministic = TRUE

SpecDet == InitDet /\ [][Next]_vars

(***************************************************************************)
(* The enumerator alone, for every small alphabet and key length           *)
(***************************************************************************)

EnumChars == {"a", "b", "c", "1"}

\* alphabets: the sequences over EnumChars without a repeated character
Alphabets ==
    {a \in UNION {[1..n -> EnumChars] : n \in 1..Cardinality(EnumChars)} :
        \A i, j \in DOMAIN a : a[i] = a[j] => i = j}

InitEnum ==
    /\ InitProcess
    /\ InitIdle
    /\ alphabet \in Alphabets
    /\ length \in 1..MaxKeyLen
    /\ deterministic = FALSE

\* lines 612-617 applied to the configuration
Enumerate ==
    /\ pc = "off"
    /\ pc' = "enumerated"
    /\ query_name_list' = BuildQueryNameList(alphabet, length)
    /\ UNCHANGED <<alphabet, length, query_idx, query_offset, offsets,
                   loop_idx, num_results, xml_bytes, sql_rows,
                   row_query_offset, db_committed, db_batch, err,
                   requests, present_at_start, tx_open_max, last_commit,
                   rolled_back, attempt, complete, deterministic, answers>>
    /\ UNCHANGED retry_idx
    /\ OtherModels

NextEnum == Enumerate

SpecEnum == InitEnum /\ [][NextEnum]_vars

(***************************************************************************)
(* The scraper against a server whose data is fixed and which may answer   *)
(* any request with the still-computing marker (lines 448-467)             *)
(***************************************************************************)

\* the result page the server sends for every key and offset once it has
\* computed it
ReadyPage ==
    [hitcount |-> results_per_page, perpage |-> results_per_page,
     addresses |-> <<Leaf("single")>>]

InitPoll ==
    /\ InitProcess
    /\ elem_text = NoElem
    /\ ToolsIdle
    /\ alphabet = query_name_alphabet
    /\ length = query_name_length
    /\ deterministic = TRUE
    /\ answers =
           [p \in Range(BuildQueryNameList(query_name_alphabet,
                                           query_name_length))
                     \X {0, results_per_page} |-> ReadyPage]

\* lines 449-455: the response carries the marker, sleep and send the same
\* request again
Poll ==
    /\ pc \in {"search", "fetch"}
    /\ PollAgain(retry_idx)
    /\ retry_idx' = NextRetryIdx(retry_idx)
    /\ requests' = requests \cup {Request(query_name, query_offset)}
    /\ UNCHANGED <<pc, alphabet, length, query_name_list, query_idx,
                   query_offset, offsets, loop_idx, num_results, xml_bytes,
                   sql_rows, row_query_offset, db_committed, db_batch, err,
                   present_at_start, tx_open_max, last_commit, rolled_back,
                   attempt, complete, deterministic, answers>>
    /\ OtherModels

\* lines 448 and 465-467: the loop ran out, num_results is still -1,
\* sys.exit(1)
Stall ==
    /\ pc \in {"search", "fetch"}
    /\ ~PollAgain(retry_idx)
    /\ Exit("aborted", "SystemExit")
    /\ UNCHANGED <<requests, answers, retry_idx>>
    /\ OtherModels

NextPoll ==
    \/ StartRun
    \/ CheckKey
    \/ Finish
    \/ StartSearch
    \/ FetchPage
    \/ FlattenPage
    \/ Executemany
    \/ NextPage
    \/ Commit
    \/ Kill
    \/ Poll
    \/ Stall

SpecPoll == InitPoll /\ [][NextPoll]_vars

(***************************************************************************)
(* The polling scraper against a server some of whose result pages carry   *)
(* no <hitcount> tag                                                       *)
(***************************************************************************)

\* a response with neither the still-computing marker nor <hitcount>
NoCountPage ==
    [hitcount |-> None, perpage |-> results_per_page,
     addresses |-> <<Leaf("single")>>]

InitParse ==
    /\ InitProcess
    /\ elem_text = NoElem
    /\ ToolsIdle
    /\ alphabet = query_name_alphabet
    /\ length = query_name_length
    /\ deterministic = TRUE
    /\ answers \in
           [Range(BuildQueryNameList(query_name_alphabet, query_name_length))
                \X {0, results_per_page} -> {ReadyPage, NoCountPage}]

SpecParse == InitParse /\ [][NextPoll]_vars

\* a step of the run in progress: a statement is executed or a request
\* returns
RunStep ==
    \/ CheckKey
    \/ Finish
    \/ StartSearch
    \/ FetchPage
    \/ FlattenPage
    \/ Executemany
    \/ NextPage
    \/ Commit
    \/ Poll
    \/ Stall

\* the same scraper and server, where a run in progress goes on: every
\* request returns, with the marker or with a page
SpecTerm == InitParse /\ [][NextPoll]_vars /\ WF_vars(RunStep)

(***************************************************************************)
(* The scraper against a server some of whose result pages carry no        *)
(* <perpage> tag or more top-level entries than the page size              *)
(***************************************************************************)

\* a result page without <perpage> tag
NoPerPagePage ==
    [hitcount |-> results_per_page, perpage |-> None,
     addresses |-> <<Leaf("single")>>]

\* a result page with one top-level entry more than the page size: its last
\* entry gets the query_offset at which the next page starts
OversizePage ==
    [hitcount |-> results_per_page, perpage |-> results_per_page,
     addresses |-> [i \in 1..(results_per_page + 1) |-> Leaf("single")]]

InitServer ==
    /\ InitProcess
    /\ elem_text = NoElem
    /\ ToolsIdle
    /\ alphabet = query_name_alphabet
    /\ length = query_name_length
    /\ deterministic = TRUE
    /\ answers \in
           [Range(BuildQueryNameList(query_name_alphabet, query_name_length))
                \X {0, results_per_page}
            -> {ReadyPage, NoPerPagePage, OversizePage}]

SpecServer == InitServer /\ [][Next]_vars

(***************************************************************************)
(* The life of one run: supervisor, session, page-size preference, key     *)
(* loop and exit handler.  The key loop is reduced to what it sends to the *)
(* service and what it does to the store; pages and rows are the business  *)
(* of the specifications above.                                            *)
(***************************************************************************)

\* the statuses the retry client hands to the caller: success, a status it
\* does not retry, and a retried status once the attempts are used up
Statuses == {200, 404, 503}

\* the session numbers the service issues
Tokens == {1, 2}

\* the handle of the service process
Pid == 1

Event(ev, arg) == [ev |-> ev, arg |-> arg]

\* a start_server that launches the service twice
start_server_twice(t, process) ==
    t \o <<Event("Popen", process), Event("sleep", 2),
           Event("Popen", process), Event("sleep", 2)>>

\* lines 138-160: launch the service in its own process group, sleep 2 s
start_server(t, process) ==
    t \o <<Event("Popen", process), Event("sleep", 2)>>

\* lines 163-173: SIGTERM to the process group of the service, sleep 1 s
stop_server(t, process) ==
    t \o <<Event("killpg", process), Event("sleep", 1)>>

\* lines 176-179
restart_server(t, process) == start_server(stop_server(t, process), process)

\* lines 182-186: stop_server raises when server_process is None, and the
\* exception is swallowed
cleanup_on_exit(t, process) ==
    IF process = None THEN t ELSE stop_server(t, process)

\* exit handlers that run only when main returns
AtexitRunsOnReturnOnly(kind) == kind = ""

\* line 189: the handler registered with atexit runs when the interpreter
\* ends by return, by an uncaught exception or by sys.exit, and does not
\* run when the process is killed
AtexitRuns(kind) == kind # "killed"

\* a status check that lets every status pass
StatusOkAlways(status) == TRUE

\* lines 367, 389, 411, 451: assert response.status == 200
StatusOk(status) == status = 200

\* a session request that takes any response for one with a session tag
TagMissingNever(tag) == FALSE

\* lines 370-373: sessionid_regex does not match the response
TagMissing(tag) == tag = None

\* requests that carry the initial value of the local instead of the token
SessionParamInitial(sid) == -1

\* lines 382, 396, 425: ('sessionid', sessionid)
SessionParam(sid) == sid

\* session.get through the retry client: a response, or the exception of
\* the last attempt when the service does not answer
Outcomes ==
    IF service.up
    THEN {[raised |-> FALSE, status |-> st] : st \in Statuses}
    ELSE {[raised |-> TRUE, status |-> None]}

\* what the life of a run leaves alone
LifeFrame ==
    UNCHANGED <<alphabet, length, query_offset, offsets, loop_idx,
                num_results, xml_bytes, sql_rows, row_query_offset,
                db_committed, db_batch, requests, present_at_start,
                tx_open_max, last_commit, rolled_back, attempt, complete,
                deterministic, answers, retry_idx, elem_text, row_col,
                db_lock, procs, db_file, ToolVars>>

\* the interpreter ends: exit handlers first, unless the process was killed
ExitWith(kind) ==
    /\ err' = kind
    /\ pc' = IF AtexitRuns(kind) THEN "atexit" ELSE "exited"

\* one session.get and the assert on its status: the events it adds, and
\* the exception that ends the run, "" when the response passes
Get(ev, arg, out) ==
    IF out.raised
    THEN [events |-> <<Event(ev, arg)>>, exc |-> "ClientError"]
    ELSE [events |-> <<Event(ev, arg), Event("status", out.status)>>,
          exc |-> IF StatusOk(out.status) THEN "" ELSE "AssertionError"]

\* lines 133, 189, 804: the script is started
Launch ==
    /\ pc \in {"off", "exited"}
    /\ pc' = "start_server"
    /\ err' = ""
    /\ server_process' = None
    /\ sessionid' = -1
    /\ trace' = <<>>
    /\ query_idx' = 0
    /\ query_name_list' = <<>>
    /\ UNCHANGED service
    /\ LifeFrame

\* line 284: start_server; Popen raises when the executable is missing
StartServer ==
    /\ pc = "start_server"
    /\ \/ /\ server_process' = Pid
          /\ trace' = start_server(trace, Pid)
          /\ \E size \in {results_per_page, OtherPerPage} :
                service' = [up |-> TRUE, perpage |-> size]
          /\ pc' = "connect"
          /\ UNCHANGED err
       \/ /\ ExitWith("OSError")
          /\ UNCHANGED <<server_process, trace, service>>
    /\ UNCHANGED <<sessionid, query_idx, query_name_list>>
    /\ LifeFrame

\* lines 286-327: connect, BEGIN EXCLUSIVE, schema
Connect ==
    /\ pc = "connect"
    /\ pc' = "get_sessionid"
    /\ sessionid' = -1
    /\ trace' = Append(trace, Event("BEGIN EXCLUSIVE", 0))
    /\ UNCHANGED <<err, server_process, service, query_idx, query_name_list>>
    /\ LifeFrame

\* lines 360-375 and 584
GetSessionid ==
    /\ pc = "get_sessionid"
    /\ \E out \in Outcomes, tag \in Tokens \cup {None} :
         LET got == Get("GET /", None, out)
         IN IF got.exc # ""
            THEN /\ trace' = trace \o got.events
                 /\ ExitWith(got.exc)
                 /\ UNCHANGED sessionid
            ELSE /\ trace' = trace \o got.events \o <<Event("sessionid", tag)>>
                 /\ IF TagMissing(tag)
                    THEN /\ ExitWith("ValueError")
                         /\ UNCHANGED sessionid
                    ELSE /\ sessionid' = tag
                         /\ pc' = "preferences"
                         /\ UNCHANGED err
    /\ UNCHANGED <<server_process, service, query_idx, query_name_list>>
    /\ LifeFrame

\* lines 377-393 and 587: the first request of set_results_per_page
GetPreferences ==
    /\ pc = "preferences"
    /\ \E out \in Outcomes :
         LET got == Get("GET preferences", SessionParam(sessionid), out)
         IN /\ trace' = trace \o got.events
            /\ IF got.exc # ""
               THEN ExitWith(got.exc)
               ELSE pc' = "save_preferences" /\ UNCHANGED err
    /\ UNCHANGED <<server_process, service, sessionid, query_idx,
                   query_name_list>>
    /\ LifeFrame

\* lines 394-415 and 612-617: the second request of set_results_per_page,
\* which the service applies or ignores, then the key list
SavePreferences ==
    /\ pc = "save_preferences"
    /\ \E out \in Outcomes :
         LET got == Get("GET save", SessionParam(sessionid), out)
         IN /\ trace' = trace \o got.events
            /\ IF got.exc # ""
               THEN /\ ExitWith(got.exc)
                    /\ UNCHANGED <<query_idx, query_name_list>>
               ELSE /\ pc' = "key_loop"
                    /\ query_name_list' = BuildQueryNameList(alphabet, length)
                    /\ query_idx' = 1
                    /\ UNCHANGED err
    /\ \/ UNCHANGED service
       \/ /\ service.up
          /\ service' = [service EXCEPT !.perpage = results_per_page]
    /\ UNCHANGED <<server_process, sessionid>>
    /\ LifeFrame

\* lines 622-797 for one key: skipped, without result, or one page fetched,
\* checked, inserted and committed
KeyLoop ==
    /\ pc = "key_loop"
    /\ query_idx <= Len(query_name_list)
    /\ \/ /\ query_idx' = query_idx + 1
          /\ UNCHANGED <<pc, err, trace>>
       \/ \E out \in Outcomes,
             page \in {"no_hitcount", "no_results", "results"} :
            LET got == Get("GET search", SessionParam(sessionid), out)
            IN IF got.exc # ""
               THEN /\ trace' = trace \o got.events
                    /\ ExitWith(got.exc)
                    /\ UNCHANGED query_idx
               ELSE IF page = "no_hitcount"
               THEN /\ trace' = trace \o got.events
                    /\ ExitWith("SystemExit")
                    /\ UNCHANGED query_idx
               ELSE IF page = "no_results"
               THEN /\ trace' = trace \o got.events
                    /\ query_idx' = query_idx + 1
                    /\ UNCHANGED <<pc, err>>
               ELSE IF service.perpage # results_per_page
               THEN /\ trace' = trace \o got.events
                                \o <<Event("perpage", service.perpage)>>
                    /\ ExitWith("AssertionError")
                    /\ UNCHANGED query_idx
               ELSE /\ trace' = trace \o got.events
                                \o <<Event("perpage", service.perpage),
                                     Event("executemany", 0),
                                     Event("commit", 0)>>
                    /\ query_idx' = query_idx + 1
                    /\ UNCHANGED <<pc, err>>
    /\ UNCHANGED <<server_process, service, sessionid, query_name_list>>
    /\ LifeFrame

\* line 622 exhausted: main_inner and main return
Return ==
    /\ pc = "key_loop"
    /\ query_idx > Len(query_name_list)
    /\ ExitWith("")
    /\ UNCHANGED <<server_process, service, sessionid, trace, query_idx,
                   query_name_list>>
    /\ LifeFrame

\* lines 182-189: the exit handler
Cleanup ==
    /\ pc = "atexit"
    /\ pc' = "exited"
    /\ trace' = cleanup_on_exit(trace, server_process)
    /\ service' = IF server_process = None THEN service ELSE ServiceDown
    /\ UNCHANGED <<err, server_process, sessionid, query_idx,
                   query_name_list>>
    /\ LifeFrame

\* the service process dies while the run uses it
ServiceDies ==
    /\ pc \in {"connect", "get_sessionid", "preferences", "save_preferences",
               "key_loop"}
    /\ service.up
    /\ service' = [service EXCEPT !.up = FALSE]
    /\ UNCHANGED <<pc, err, server_process, sessionid, trace, query_idx,
                   query_name_list>>
    /\ LifeFrame

\* the scraper is killed with a signal no handler sees
KillRun ==
    /\ pc \in {"start_server", "connect", "get_sessionid", "preferences",
               "save_preferences", "key_loop"}
    /\ ExitWith("killed")
    /\ UNCHANGED <<server_process, service, sessionid, trace, query_idx,
                   query_name_list>>
    /\ LifeFrame

NextLife ==
    \/ Launch
    \/ StartServer
    \/ Connect
    \/ GetSessionid
    \/ GetPreferences
    \/ SavePreferences
    \/ KeyLoop
    \/ Return
    \/ Cleanup
    \/ ServiceDies
    \/ KillRun

\* the interpreter runs its exit handlers once it ends
SpecLife == Init /\ [][NextLife]_vars /\ WF_vars(Cleanup)

(***************************************************************************)
(* csv2sqlite.py: csv_to_sqlite on every small CSV and batch size          *)
(***************************************************************************)

\* the most data rows of a CSV
MaxCsvRows == 4

\* the greatest batch size
MaxBatch == 3

\* the CSV files, as the recordtype_int of their data rows:
\* 0 = single, 1 = parent, 2 = child
CsvFiles == UNION {[1..n -> {0, 1, 2}] : n \in 0..MaxCsvRows}

\* a batch that forgets the parent of the batch before
CarriedParentNone(last_parent) == None

\* line 103: current_parent = last_parent
CarriedParent(last_parent) == last_parent

RECURSIVE BatchLoop(_, _, _)
\* lines 105-128: the loop of process_batch over the rows of a batch
BatchLoop(batch_rows, next_rowid, current_parent) ==
    IF batch_rows = <<>>
    THEN [data |-> <<>>, next_rowid |-> next_rowid,
          current_parent |-> current_parent]
    ELSE LET record_type == Head(batch_rows)
             parent_id == IF record_type = 2 THEN current_parent ELSE None
             parent == IF record_type = 1 THEN next_rowid
                       ELSE current_parent
             rest == BatchLoop(Tail(batch_rows), next_rowid + 1, parent)
         IN [data |-> <<[parent_id |-> parent_id,
                         recordtype_int |-> record_type]>> \o rest.data,
             next_rowid |-> rest.next_rowid,
             current_parent |-> rest.current_parent]

\* lines 99-130
process_batch(batch_rows, start_rowid, last_parent) ==
    BatchLoop(batch_rows, start_rowid, CarriedParent(last_parent))

\* list(islice(reader, batch_size)): the next rows the reader has
islice(rows, reader, batch_size) ==
    SubSeq(rows, reader + 1, Min(reader + batch_size, Len(rows)))

RECURSIVE InsertRecords(_, _)
\* lines 144-147: executemany; the store gives each row the id after the
\* greatest id of the table (id INTEGER PRIMARY KEY AUTOINCREMENT, line 78)
InsertRecords(table, data) ==
    IF data = <<>> THEN table
    ELSE InsertRecords(
             Append(table,
                    [id |-> IF table = <<>> THEN 1
                            ELSE table[Len(table)].id + 1,
                     parent_id |-> Head(data).parent_id,
                     recordtype_int |-> Head(data).recordtype_int]),
             Tail(data))

InitCsv ==
    /\ InitProcess
    /\ answers = <<>>
    /\ elem_text = NoElem
    /\ alphabet = query_name_alphabet
    /\ length = query_name_length
    /\ deterministic = FALSE
    /\ split_state = SplitIdle
    /\ \E rows \in CsvFiles, size \in 1..MaxBatch :
          csv_state = [CsvIdle EXCEPT !.rows = rows, !.batch_size = size]

\* what csv_to_sqlite leaves alone
CsvFrame == UNCHANGED <<pc, ProcessVarsButPc, elem_text, row_col, db_lock,
                        procs, db_file, LifeVars, split_state>>

\* lines 52-97: the output does not exist, the table is created
OpenCsv ==
    /\ csv_state.pc = "off"
    /\ csv_state' = [csv_state EXCEPT !.pc = "batches",
                                      !.reader = 0,
                                      !.next_rowid = 1,
                                      !.last_parent_rowid = None,
                                      !.table = <<>>]
    /\ CsvFrame

\* lines 135-150: one iteration of the batch loop
InsertBatch ==
    /\ csv_state.pc = "batches"
    /\ LET batch == islice(csv_state.rows, csv_state.reader,
                           csv_state.batch_size)
           done == process_batch(batch, csv_state.next_rowid,
                                 csv_state.last_parent_rowid)
       IN /\ batch # <<>>
          /\ csv_state' =
                [csv_state EXCEPT
                    !.reader = @ + Len(batch),
                    !.next_rowid = done.next_rowid,
                    !.last_parent_rowid = done.current_parent,
                    !.table = InsertRecords(@, done.data)]
    /\ CsvFrame

\* lines 136-138 and 154: the reader is exhausted, commit
CommitCsv ==
    /\ csv_state.pc = "batches"
    /\ islice(csv_state.rows, csv_state.reader, csv_state.batch_size) = <<>>
    /\ csv_state' = [csv_state EXCEPT !.pc = "done"]
    /\ CsvFrame

NextCsv ==
    \/ OpenCsv
    \/ InsertBatch
    \/ CommitCsv

SpecCsv == InitCsv /\ [][NextCsv]_vars

(***************************************************************************)
(* split-text-file.py and join-telefonbuch-csv-parts.py on every small     *)
(* file and chunk size                                                     *)
(***************************************************************************)

\* the most bytes of an input file
MaxFileLen == 5

\* the greatest chunk size, in bytes
MaxChunk == 3

\* the byte b"\n"
Newline == 10

\* the bytes of the files: the newline and the letter x
Bytes == {Newline, 120}

\* the input files
Files == UNION {[1..n -> Bytes] : n \in 0..MaxFileLen}

RECURSIVE Lines(_)
\* `for line in f` of a file opened in binary mode: each line runs up to
\* and including its newline; the rest after the last newline, if there is
\* any, is the last line
Lines(content) ==
    IF content = <<>> THEN <<>>
    ELSE LET ends == {i \in DOMAIN content : content[i] = Newline}
             stop == IF ends = {} THEN Len(content)
                     ELSE CHOOSE i \in ends : \A j \in ends : i <= j
         IN <<SubSeq(content, 1, stop)>>
                \o Lines(SubSeq(content, stop + 1, Len(content)))

\* a chunk that is closed only after it has grown over the chunk size
StartsNewChunkLate(bytes_written, len, chunk_size) ==
    bytes_written > chunk_size

\* line 26: if bytes_written + len(line) > chunk_size
StartsNewChunk(bytes_written, len, chunk_size) ==
    bytes_written + len > chunk_size

\* the content of part chunk_num
PartContent(parts, chunk_num) ==
    (CHOOSE part \in parts : part.chunk_num = chunk_num).content

RECURSIVE SplitLines(_, _, _, _, _)
\* lines 24-35: the loop of split_file over the lines of the input;
\* parts are the part files written so far, chunk_num the open one
SplitLines(lines, chunk_size, parts, chunk_num, bytes_written) ==
    IF lines = <<>> THEN parts
    ELSE LET line == Head(lines)
             fresh == StartsNewChunk(bytes_written, Len(line), chunk_size)
             num == IF fresh THEN chunk_num + 1 ELSE chunk_num
             before == IF fresh THEN <<>> ELSE PartContent(parts, num)
             kept == {part \in parts : part.chunk_num # num}
         IN SplitLines(Tail(lines), chunk_size,
                       kept \cup {[chunk_num |-> num,
                                   content |-> before \o line]},
                       num,
                       (IF fresh THEN 0 ELSE bytes_written) + Len(line))

\* lines 9-37: part 1 is opened before the first line is read
split_file(input, chunk_size) ==
    SplitLines(Lines(input), chunk_size,
               {[chunk_num |-> 1, content |-> <<>>]}, 1, 0)

RECURSIVE SortedParts(_)
\* lines 15-18: the part files sorted by the number in their name
SortedParts(parts) ==
    IF parts = {} THEN <<>>
    ELSE LET first == CHOOSE part \in parts :
                          \A other \in parts :
                              part.chunk_num <= other.chunk_num
         IN <<first>> \o SortedParts(parts \ {first})

RECURSIVE JoinContents(_)
\* lines 25-31: each part is written out, with a newline byte added when
\* its content does not end with one
JoinContents(part_files) ==
    IF part_files = <<>> THEN <<>>
    ELSE LET content == Head(part_files).content
             ended == content # <<>> /\ content[Len(content)] = Newline
         IN (IF ended THEN content ELSE content \o <<Newline>>)
                \o JoinContents(Tail(part_files))

\* lines 8-33
join_parts(parts) == JoinContents(SortedParts(parts))

InitSplit ==
    /\ InitProcess
    /\ answers = <<>>
    /\ elem_text = NoElem
    /\ alphabet = query_name_alphabet
    /\ length = query_name_length
    /\ deterministic = FALSE
    /\ csv_state = CsvIdle
    /\ \E input \in Files, size \in 1..MaxChunk :
          split_state = [SplitIdle EXCEPT !.input = input,
                                          !.chunk_size = size]

\* what the two tools leave alone
SplitFrame == UNCHANGED <<pc, ProcessVarsButPc, elem_text, row_col, db_lock,
                          procs, db_file, LifeVars, csv_state>>

\* split-text-file.py lines 9-37
SplitFile ==
    /\ split_state.pc = "off"
    /\ split_state' =
          [split_state EXCEPT
              !.pc = "split",
              !.parts = split_file(split_state.input,
                                   split_state.chunk_size)]
    /\ SplitFrame

\* join-telefonbuch-csv-parts.py lines 8-33, run on the parts of the split
JoinParts ==
    /\ split_state.pc = "split"
    /\ split_state' = [split_state EXCEPT
                          !.pc = "joined",
                          !.output = join_parts(split_state.parts)]
    /\ SplitFrame

NextSplit ==
    \/ SplitFile
    \/ JoinParts

SpecSplit == InitSplit /\ [][NextSplit]_vars

(***************************************************************************)
(* get_search_results alone, for every key and every small offset          *)
(***************************************************************************)

\* lines 424-445: the request of one call, query_name and query_offset
\* being the caller's
BuildRequest ==
    /\ pc = "off"
    /\ \E i \in DOMAIN BuildQueryNameList(alphabet, length),
          o \in 0..MaxOffset :
         /\ query_name_list' = BuildQueryNameList(alphabet, length)
         /\ query_idx' = i
         /\ query_offset' = o
         /\ requests' = {Request(BuildQueryNameList(alphabet, length)[i], o)}
    /\ pc' = "requested"
    /\ UNCHANGED <<alphabet, length, offsets, loop_idx, num_results,
                   xml_bytes, sql_rows, row_query_offset, db_committed,
                   db_batch, err, present_at_start, tx_open_max,
                   last_commit, rolled_back, attempt, complete,
                   deterministic, answers, retry_idx>>
    /\ OtherModels

NextSearch == BuildRequest

SpecSearch == InitEnum /\ [][NextSearch]_vars

(***************************************************************************)
(* One column of one <address> element, lines 231-236 of parse_address     *)
(***************************************************************************)

\* characters str.strip() removes
Whitespace == {" ", "\t"}

\* characters of a column text in the model
TextChars == Whitespace \cup {"x"}

Texts == UNION {[1..n -> TextChars] : n \in 0..MaxTextLen}

\* what address_elem.find(col) and elem.text give: no element, or an element
\* with its text (<<>> for an element without text, whose text is None)
Elems == {NoElem} \cup [found : {TRUE}, text : Texts]

RECURSIVE LStrip(_)
LStrip(t) ==
    IF t # <<>> /\ Head(t) \in Whitespace THEN LStrip(Tail(t)) ELSE t

RECURSIVE RStrip(_)
RStrip(t) ==
    IF t # <<>> /\ t[Len(t)] \in Whitespace
    THEN RStrip(SubSeq(t, 1, Len(t) - 1))
    ELSE t

\* str.strip()
strip(t) == RStrip(LStrip(t))

\* lines 233-236: the value stored for the column
ColumnValue(elem) ==
    IF elem.found /\ elem.text # <<>>
    THEN [stored |-> TRUE, null |-> FALSE, text |-> strip(elem.text)]
    ELSE [stored |-> TRUE, null |-> TRUE, text |-> <<>>]

InitField ==
    /\ InitProcess
    /\ answers = <<>>
    /\ elem_text \in Elems
    /\ ToolsIdle
    /\ alphabet = query_name_alphabet
    /\ length = query_name_length
    /\ deterministic = FALSE

\* lines 232-236 for one column
ExtractColumn ==
    /\ pc = "off"
    /\ pc' = "extracted"
    /\ row_col' = ColumnValue(elem_text)
    /\ UNCHANGED <<ProcessVarsButPc, elem_text, db_lock, procs, db_file,
                   LifeVars, ToolVars>>

NextField == ExtractColumn

SpecField == InitField /\ [][NextField]_vars

(***************************************************************************)
(* Two scraper instances on one database file.  Each runs main_inner on    *)
(* its own connection; BEGIN EXCLUSIVE (lines 292 and 797) takes SQLite's  *)
(* EXCLUSIVE lock, which commit and the end of the process release.        *)
(***************************************************************************)

ProcessVars ==
    <<pc, alphabet, length, query_name_list, query_idx, query_offset,
      offsets, loop_idx, num_results, xml_bytes, sql_rows, row_query_offset,
      db_committed, db_batch, err, requests, present_at_start, tx_open_max,
      last_commit, rolled_back, attempt, complete, deterministic, answers,
      retry_idx>>

\* a BEGIN that takes no lock (BEGIN DEFERRED)
LockAlwaysFree(lock) == TRUE

\* BEGIN EXCLUSIVE succeeds when no connection holds a lock on the file
LockFree(lock) == lock = 0

\* the pages the server sends to the two instances: at most one top-level
\* node
SmallPages == {p \in Pages : Len(p) <= 1}

KeyList == BuildQueryNameList(alphabet, length)

KeyOf(i) == KeyList[procs[i].query_idx]

\* what the connection of instance i reads
TableOf(i) == db_file \cup procs[i].batch

InTransaction(i) == procs[i].pc \in {"next_key", "page", "commit"}

\* the process of instance i has ended: its open transaction is rolled back
\* and its lock released
Ended(i, position) ==
    /\ procs' = [procs EXCEPT ![i] = [NotStarted EXCEPT !.pc = position]]
    /\ db_lock' = IF db_lock = i THEN 0 ELSE db_lock
    /\ UNCHANGED db_file

\* lines 286-292: connect and BEGIN EXCLUSIVE
BeginExclusive(i) ==
    /\ procs[i].pc \in {"off", "aborted", "done"}
    /\ LockFree(db_lock)
    /\ db_lock' = i
    /\ procs' = [procs EXCEPT ![i] =
                    [NotStarted EXCEPT !.pc = "next_key", !.query_idx = 1]]
    /\ UNCHANGED <<db_file, ProcessVars, elem_text, row_col, LifeVars, ToolVars>>

\* lines 292 and 797: the lock is held by the other connection until the
\* busy timeout ends, sqlite3.OperationalError ends the process
Busy(i) ==
    /\ procs[i].pc \in {"off", "aborted", "done", "begin"}
    /\ ~LockFree(db_lock)
    /\ Ended(i, "aborted")
    /\ UNCHANGED <<ProcessVars, elem_text, row_col, LifeVars, ToolVars>>

\* lines 622-648: the resume check and the first search of a key
SearchKey(i) ==
    /\ procs[i].pc = "next_key"
    /\ procs[i].query_idx <= Len(KeyList)
    /\ IF HasKey(TableOf(i), KeyOf(i))
       THEN procs' = [procs EXCEPT ![i].query_idx = @ + 1]
       ELSE \E T \in HitCounts :
               IF NoResults(T)
               THEN procs' = [procs EXCEPT ![i].query_idx = @ + 1]
               ELSE procs' = [procs EXCEPT ![i].pc = "page",
                                           ![i].query_offset = 0,
                                           ![i].num_results = T]
    /\ UNCHANGED <<db_lock, db_file, ProcessVars, elem_text, row_col, LifeVars, ToolVars>>

\* lines 664-784: one iteration of the page loop
InsertPage(i) ==
    /\ procs[i].pc = "page"
    /\ \E page \in SmallPages :
         LET p == procs[i]
             built == SqlRows(AllRows(page, NextId(TableOf(i))), KeyOf(i),
                              p.query_offset)
             after == InsertAll(db_file, p.batch, built.rows)
             more == p.query_offset + results_per_page \in
                         Range(PyRange(0, p.num_results + 1,
                                       results_per_page))
         IN IF ~after.ok
            THEN Ended(i, "aborted")
            ELSE /\ db_file' = after.committed
                 /\ procs' = [procs EXCEPT
                       ![i].batch = after.batch,
                       ![i].query_offset =
                           IF more THEN @ + results_per_page ELSE @,
                       ![i].pc = IF more THEN "page" ELSE "commit"]
                 /\ UNCHANGED db_lock
    /\ UNCHANGED <<ProcessVars, elem_text, row_col, LifeVars, ToolVars>>

\* line 793: commit
CommitKey(i) ==
    /\ procs[i].pc = "commit"
    /\ LET after == StoreAfterCommit(db_file, procs[i].batch)
       IN /\ db_file' = after.committed
          /\ procs' = [procs EXCEPT ![i].batch = after.batch,
                                    ![i].pc = "begin"]
    /\ db_lock' = IF db_lock = i THEN 0 ELSE db_lock
    /\ UNCHANGED <<ProcessVars, elem_text, row_col, LifeVars, ToolVars>>

\* line 797: BEGIN EXCLUSIVE for the next key
BeginNext(i) ==
    /\ procs[i].pc = "begin"
    /\ LockFree(db_lock)
    /\ db_lock' = i
    /\ procs' = [procs EXCEPT ![i].pc = "next_key",
                              ![i].query_idx = @ + 1,
                              ![i].query_offset = -1,
                              ![i].num_results = -1]
    /\ UNCHANGED <<db_file, ProcessVars, elem_text, row_col, LifeVars, ToolVars>>

\* line 622 exhausted: the process of instance i ends
FinishInstance(i) ==
    /\ procs[i].pc = "next_key"
    /\ procs[i].query_idx > Len(KeyList)
    /\ Ended(i, "done")
    /\ UNCHANGED <<ProcessVars, elem_text, row_col, LifeVars, ToolVars>>

\* instance i is killed from outside
KillInstance(i) ==
    /\ procs[i].pc \in {"next_key", "page", "commit", "begin"}
    /\ Ended(i, "aborted")
    /\ UNCHANGED <<ProcessVars, elem_text, row_col, LifeVars, ToolVars>>

NextTwo ==
    \E i \in Instances :
        \/ BeginExclusive(i)
        \/ Busy(i)
        \/ SearchKey(i)
        \/ InsertPage(i)
        \/ CommitKey(i)
        \/ BeginNext(i)
        \/ FinishInstance(i)
        \/ KillInstance(i)

SpecTwo == Init /\ [][NextTwo]_vars

(***************************************************************************)
(* Properties                                                              *)
(***************************************************************************)

CommittedKeys == {r.query_name : r \in db_committed}

KeyRows(name) == {r \in db_committed : r.query_name = name}

\* a key is being fetched, flattened or inserted
InFlight == pc \in {"search", "fetch", "flatten", "insert", "inserted"}

\* C1: per-key atomicity.  The durable store only changes at a commit, a
\* process that is not running has no open batch, the key in progress has no
\* durable row, and every key with a durable row has exactly the rows that
\* the attempt which committed it flattened, that attempt having visited
\* every offset of range(0, T + 1, results_per_page).
C1_PerKeyAtomicity ==
    /\ db_committed = last_commit
    /\ (~Running => db_batch = {})
    /\ (InFlight => KeyRows(query_name) = {})
    /\ \A k \in CommittedKeys :
        /\ k \in DOMAIN complete
        /\ KeyRows(k) = complete[k].rows
        /\ complete[k].offsets =
               Range(PyRange(0, complete[k].T + 1, results_per_page))

\* a run is killed after inserting rows of a key and before its commit,
\* while an earlier key is durable
C1_Witness ==
    /\ pc = "aborted"
    /\ err = "killed"
    /\ rolled_back
    /\ db_committed # {}

\* C2: resume skip.  No search request of the current run names a key that
\* had a durable row when the run started.
C2_ResumeSkip == \A r \in requests : r.name \notin present_at_start

\* a run that started with one key present finished after searching another
C2_Witness ==
    /\ pc = "done"
    /\ present_at_start # {}
    /\ requests # {}

Failed(table) == [ok |-> FALSE, table |-> table]

RECURSIVE RefPages(_, _, _)
\* the page loop of one key, run without interruption on the recorded answers
RefPages(table, name, offs) ==
    IF offs = <<>> THEN [ok |-> TRUE, table |-> table]
    ELSE IF <<name, Head(offs)>> \notin DOMAIN answers THEN Failed(table)
    ELSE LET resp == answers[<<name, Head(offs)>>]
             built == SqlRows(AllRows(resp.addresses, NextId(table)), name,
                              Head(offs))
         IN IF resp.hitcount = None \/ resp.perpage # results_per_page
            THEN Failed(table)
            ELSE RefPages(table \cup Range(built.rows), name, Tail(offs))

RECURSIVE RefKeys(_, _)
\* the key loop, run without interruption on the recorded answers
RefKeys(table, names) ==
    IF names = <<>> THEN [ok |-> TRUE, table |-> table]
    ELSE LET k == Head(names)
         IN IF HasKey(table, k) THEN RefKeys(table, Tail(names))
            ELSE IF <<k, 0>> \notin DOMAIN answers THEN Failed(table)
            ELSE LET first == answers[<<k, 0>>]
                 IN IF first.hitcount = None THEN Failed(table)
                    ELSE IF first.hitcount = 0 THEN RefKeys(table, Tail(names))
                    ELSE LET pg == RefPages(table, k,
                                            PyRange(0, first.hitcount + 1,
                                                    results_per_page))
                         IN IF pg.ok THEN RefKeys(pg.table, Tail(names))
                            ELSE Failed(pg.table)

\* the store one uninterrupted run leaves, starting from the empty store
UninterruptedRun == RefKeys({}, BuildQueryNameList(alphabet, length))

\* C3: exactly-once under restart.  Against a server that repeats its
\* answers, whenever a run completes (after any number of runs that were
\* killed or aborted) the durable store equals, ids included, the store one
\* uninterrupted run leaves.
C3_ExactlyOnce ==
    pc = "done" =>
        /\ UninterruptedRun.ok
        /\ db_committed = UninterruptedRun.table

\* a run completes and commits a key after an earlier run, which committed
\* another key, ended before finishing
C3_Witness ==
    /\ pc = "done"
    /\ deterministic
    /\ present_at_start # {}
    /\ CommittedKeys # present_at_start
    /\ \E r \in db_committed : r.query_offset >= results_per_page

SameTriple(r, s) ==
    /\ r.query_name = s.query_name
    /\ r.query_offset = s.query_offset
    /\ r.query_child_num = s.query_child_num

\* C4: no two rows of the table, the open batch included, share
\* (query_name, query_offset, query_child_num), and no insert is rejected by
\* the unique index; pages hold at most results_per_page top-level nodes.
C4_TripleUnique ==
    /\ \A r, s \in Table : SameTriple(r, s) => r = s
    /\ err # "IntegrityError"

\* the children of the last node of a full page and the first node of the
\* next page are stored under the same query_offset
C4_Witness ==
    \E r, s \in Table :
        /\ r.query_name = s.query_name
        /\ r.query_offset = s.query_offset
        /\ r.query_offset = results_per_page
        /\ r.parent_id # None
        /\ s.parent_id = None

\* C5: ids are unique in the table, the rows of a page carry increasing ids
\* in the order executemany inserts them, and every row an insert adds has
\* an id larger than every row the table held before the insert.
C5_IdsIncrease ==
    /\ [](\A r, s \in Table : r.id = s.id => r = s)
    /\ [](\A i, j \in DOMAIN sql_rows :
             i < j => sql_rows[i].id < sql_rows[j].id)
    /\ [][\A r \in Table' \ Table : \A s \in Table : r.id > s.id]_vars

\* a later run inserts the second page of a key after rows of another key
\* were committed
C5_Witness ==
    /\ present_at_start # {}
    /\ \E r \in db_committed, s \in db_batch :
        /\ r.query_name # s.query_name
        /\ s.query_offset >= results_per_page

\* C6: the ids of the rows of the open transaction are the run
\* tx_open_max + 1, tx_open_max + 2, ... without a gap, where tx_open_max is
\* MAX(id) of the store when the transaction began (0 for an empty store),
\* and the rows of a page carry increasing ids in the order of insertion.
C6_TransactionIdRun ==
    /\ {r.id : r \in db_batch} =
           (tx_open_max + 1)..(tx_open_max + Cardinality(db_batch))
    /\ \A i, j \in DOMAIN sql_rows : i < j => sql_rows[i].id < sql_rows[j].id

\* a transaction that began on a non-empty store holds rows of two pages
C6_Witness ==
    /\ tx_open_max > 0
    /\ \E r, s \in db_batch :
        /\ r.query_offset < results_per_page
        /\ s.query_offset > results_per_page

\* C7 as stated: every parent_id names a stored row with a smaller id and
\* recordtype "parent".
C7_ParentIsParentKind ==
    \A r \in Table :
        r.parent_id # None =>
            \E p \in Table :
                /\ p.id = r.parent_id
                /\ p.id < r.id
                /\ p.recordtype = "parent"

\* C7 amended: every parent_id names a row with a smaller id of the same key
\* in the same batch (both durable or both in the open batch); the
\* recordtype of that row is not constrained.
C7_ParentExists ==
    \A r \in Table :
        r.parent_id # None =>
            \E p \in Table :
                /\ p.id = r.parent_id
                /\ p.id < r.id
                /\ p.query_name = r.query_name
                /\ (p \in db_batch) = (r \in db_batch)

\* a durable row whose parent_id names a row of recordtype "child"
C7_Witness ==
    \E r, p \in db_committed :
        /\ r.parent_id = p.id
        /\ p.recordtype = "child"

IsTopLevel(row) == row.parent_id = None

\* query_offset of the row after position j, or the counter after the loop
OffsetAfter(j) ==
    IF j < Len(sql_rows) THEN sql_rows[j + 1].query_offset
    ELSE row_query_offset

\* C8: of the rows built for a page, those with null parent_id are as many
\* as the top-level nodes of the page, the i-th of them (from 0) has
\* query_offset = page offset + i, and the counter moves by 1 after a
\* top-level row and by 0 after a child row.
C8_TopLevelOffsets ==
    pc = "insert" =>
        LET tops == SelectSeq(sql_rows, IsTopLevel)
        IN /\ Len(tops) = Len(xml_bytes.addresses)
           /\ \A i \in DOMAIN tops :
                 tops[i].query_offset = query_offset + (i - 1)
           /\ row_query_offset = query_offset + Len(xml_bytes.addresses)
           /\ \A j \in DOMAIN sql_rows :
                 OffsetAfter(j) - sql_rows[j].query_offset =
                     (IF IsTopLevel(sql_rows[j]) THEN 1 ELSE 0)

\* the second page of a key holds two top-level nodes and child rows
C8_Witness ==
    /\ pc = "insert"
    /\ query_offset > 0
    /\ Len(xml_bytes.addresses) = 2
    /\ \E j \in DOMAIN sql_rows : ~IsTopLevel(sql_rows[j])
    /\ IsTopLevel(sql_rows[Len(sql_rows)])

\* C9 as stated: the first child row after a non-child row has
\* query_child_num = 0, each further consecutive child row 1 more.
C9_FirstChildZero ==
    pc = "insert" =>
        \A j \in DOMAIN sql_rows :
            (j > 1 /\ ~IsTopLevel(sql_rows[j])) =>
                sql_rows[j].query_child_num =
                    (IF IsTopLevel(sql_rows[j - 1]) THEN 0
                     ELSE sql_rows[j - 1].query_child_num + 1)

\* C9 amended: the first child row after a non-child row has
\* query_child_num = 1 (the non-child row itself has 0), each further
\* consecutive child row 1 more than the row before it.
C9_FirstChildOne ==
    pc = "insert" =>
        \A j \in DOMAIN sql_rows :
            (j > 1 /\ ~IsTopLevel(sql_rows[j])) =>
                sql_rows[j].query_child_num =
                    (IF IsTopLevel(sql_rows[j - 1]) THEN 1
                     ELSE sql_rows[j - 1].query_child_num + 1)

\* a page with a parent whose child rows are numbered up to 3
C9_Witness ==
    /\ pc = "insert"
    /\ \E j \in DOMAIN sql_rows : sql_rows[j].query_child_num = 3

\* position of a character in the alphabet
Pos(c) == CHOOSE i \in DOMAIN alphabet : alphabet[i] = c

\* x comes before y in the product order of the alphabet
Precedes(x, y) ==
    \E i \in 1..length :
        /\ \A j \in 1..(i - 1) : x[j] = y[j]
        /\ Pos(x[i]) < Pos(y[i])

\* C10: the enumerator yields the strings of the configured length over
\* the alphabet whose first character is no digit, all of them, each once,
\* in the product order of the alphabet; for the alphabet a, b, c, 1 and
\* length 2 these are aa ab ac a1 ba bb bc b1 ca cb cc c1.
C10_Enumerator ==
    pc = "enumerated" =>
        /\ \A i \in DOMAIN query_name_list :
              /\ query_name_list[i] \in [1..length -> Range(alphabet)]
              /\ query_name_list[i][1] \notin digits
        /\ \A name \in [1..length -> Range(alphabet)] :
              name[1] \notin digits =>
                  \E i \in DOMAIN query_name_list : query_name_list[i] = name
        /\ \A i, j \in DOMAIN query_name_list :
              i < j => Precedes(query_name_list[i], query_name_list[j])
        /\ (alphabet = <<"a", "b", "c", "1">> /\ length = 2) =>
              query_name_list =
                  << <<"a", "a">>, <<"a", "b">>, <<"a", "c">>, <<"a", "1">>,
                     <<"b", "a">>, <<"b", "b">>, <<"b", "c">>, <<"b", "1">>,
                     <<"c", "a">>, <<"c", "b">>, <<"c", "c">>, <<"c", "1">> >>

\* the enumeration of the alphabet a, b, c, 1 at length 2 was built
C10_Witness ==
    /\ pc = "enumerated"
    /\ alphabet = <<"a", "b", "c", "1">>
    /\ length = 2
    /\ Len(query_name_list) = 12

\* the server answers the first search of key k with <hitcount>0
ZeroResultKey(k) ==
    /\ <<k, 0>> \in DOMAIN answers
    /\ answers[<<k, 0>>].hitcount = 0

\* C11: a key whose first search (offset 0) reports 0 results has no row in
\* the table, its only request of the run is that first search, nothing is
\* committed for it, and the step that reads the 0 leaves the store as it
\* is and moves to the next key.
C11_ZeroResults ==
    /\ [](\A k \in Range(query_name_list) :
             ZeroResultKey(k) =>
                 /\ \A r \in Table : r.query_name # k
                 /\ \A r \in requests : r.name = k => r.offset = 0
                 /\ k \notin DOMAIN complete
                 /\ (InFlight /\ query_name = k) => pc = "search")
    /\ [][(/\ pc = "search"
            /\ pc' # "aborted"
            /\ <<query_name, 0>> \in DOMAIN answers'
            /\ answers'[<<query_name, 0>>].hitcount = 0)
             => /\ pc' = "next_key"
                /\ query_idx' = query_idx + 1
                /\ db_committed' = db_committed
                /\ db_batch' = db_batch
                /\ last_commit' = last_commit]_vars

\* the first key reported 0 results and the second key has rows in the
\* open batch
C11_Witness ==
    /\ pc = "inserted"
    /\ query_idx = 2
    /\ ZeroResultKey(query_name_list[1])
    /\ db_batch # {}

\* C12: when the page about to be flattened carries a <perpage> value other
\* than the configured page size, the next step ends the run: no row of the
\* page is built or inserted, the durable store is unchanged, the open batch
\* (the rows of the earlier pages of the key) is gone, the store shows no row
\* of the key in progress, and no key is processed until a new run starts.
C12_PageSizeMismatch ==
    /\ [](err = "AssertionError" =>
             pc = "aborted" /\ db_batch = {} /\ db_committed = last_commit)
    /\ [][(pc = "flatten" /\ xml_bytes.perpage \notin {None, results_per_page})
             => /\ pc' = "aborted"
                /\ sql_rows' = <<>>
                /\ db_batch' = {}
                /\ db_committed' = db_committed
                /\ \A r \in db_committed' \cup db_batch' :
                       r.query_name # query_name
                /\ requests' = requests
                /\ query_idx' = 0]_vars

\* a later page of a key had another page size: the rows of its earlier
\* pages were rolled back, the rows of an earlier key stay
C12_Witness ==
    /\ pc = "aborted"
    /\ err = "AssertionError"
    /\ rolled_back
    /\ db_committed # {}

\* the ids the rows of key k have in the database file
KeyIds(k) == {r.id : r \in {x \in db_file : x.query_name = k}}

\* C13: with two instances on one database file, an instance between
\* BEGIN EXCLUSIVE and its commit holds the lock, so the two are never in a
\* transaction at the same time; only the lock holder inserts or commits;
\* while an instance has uncommitted rows the other changes neither the
\* file nor a batch; and the committed rows of a key carry an unbroken run
\* of ids, none of them shared with another row.
C13_ExclusiveBatch ==
    /\ [](\A i \in Instances :
             (InTransaction(i) \/ procs[i].batch # {}) => db_lock = i)
    /\ [](\A i, j \in Instances :
             (InTransaction(i) /\ InTransaction(j)) => i = j)
    /\ [](\A r, q \in db_file : r.id = q.id => r = q)
    /\ [](\A k \in Range(KeyList) :
             \A a, b \in KeyIds(k) : \A c \in a..b : c \in KeyIds(k))
    /\ [][\A i \in Instances :
             /\ (procs'[i].batch # procs[i].batch /\ procs'[i].batch # {})
                    => db_lock = i
             /\ procs[i].batch # {} =>
                    /\ db_file' \in {db_file, db_file \cup procs[i].batch}
                    /\ \A j \in Instances \ {i} :
                           procs'[j].batch = procs[j].batch]_vars
    /\ [][db_file' # db_file =>
             /\ db_lock \in Instances
             /\ db_file' = db_file \cup procs[db_lock].batch]_vars

\* one instance has uncommitted rows of a key while the other has ended
\* and rows of another key are committed
C13_Witness ==
    \E i, j \in Instances :
        /\ procs[i].batch # {}
        /\ procs[j].pc = "aborted"
        /\ \E r \in db_file : r.id > 1
        /\ \E r \in procs[i].batch, q \in db_file :
               r.query_name # q.query_name

\* C14 as stated: every key whose batch was committed has a durable row, so
\* that the resume check finds it.
C14_CommittedKeyVisible ==
    \A k \in DOMAIN complete : \E r \in db_committed : r.query_name = k

\* the keys whose committed batch held at least one row
CommittedWithRows == {k \in DOMAIN complete : complete[k].rows # {}}

\* C14 amended: a key whose committed batch held at least one row keeps
\* those rows durably, every run started afterwards finds it present and
\* sends no request for it; the commit is the only step that changes the
\* durable store, it adds the whole batch, and it leaves the scraper before
\* the resume check of the next key with a new, empty transaction whose ids
\* start after MAX(id) of the committed store.  A batch without rows is
\* committed too and leaves the key invisible.
C14_CommitVisible ==
    /\ [](\A k \in CommittedWithRows :
             /\ complete[k].rows \subseteq db_committed
             /\ \E r \in db_committed : r.query_name = k
             /\ k \in present_at_start =>
                    \A r \in requests : r.name # k)
    /\ [][(pc \in {"off", "done", "aborted"} /\ pc' = "next_key")
             => CommittedWithRows \subseteq present_at_start']_vars
    /\ [][db_committed' # db_committed
             => /\ pc = "inserted"
                /\ pc' = "next_key"
                /\ query_idx' = query_idx + 1
                /\ db_committed' = db_committed \cup db_batch
                /\ db_batch' = {}
                /\ tx_open_max' = MaxId(db_committed')
                /\ query_name \in DOMAIN complete']_vars

\* a run that found one committed key present has committed a second key
\* with rows and finished
C14_Witness ==
    /\ pc = "done"
    /\ \E k \in CommittedWithRows : k \in present_at_start
    /\ \E k \in CommittedWithRows : k \notin present_at_start

\* the multiples of the page size from 0 up to n
PageOffsetsUpTo(n) == {o \in 0..n : o % results_per_page = 0}

\* C15: for a key whose first search reports T > 0, the pages flattened so
\* far are those of the offsets 0, page size, 2 * page size, ... up to the
\* current one, none beyond T; after an insert every flattened row is in
\* the open batch and the requests of the run for the key are those of
\* exactly these offsets; and the commit happens when the offsets are all
\* the multiples of the page size that are <= T, the offset T itself
\* included when T is such a multiple.
C15_PageOffsets ==
    /\ []((InFlight /\ pc # "search") =>
             /\ attempt.T > 0
             /\ query_offset % results_per_page = 0
             /\ query_offset <= attempt.T
             /\ attempt.offsets =
                    (IF pc \in {"insert", "inserted"}
                     THEN PageOffsetsUpTo(query_offset)
                     ELSE PageOffsetsUpTo(query_offset - 1))
             /\ pc = "inserted" =>
                    /\ attempt.rows \subseteq db_batch
                    /\ {r.offset : r \in {x \in requests :
                                              x.name = query_name}}
                           = attempt.offsets)
    /\ [][db_committed' # db_committed =>
             /\ attempt.offsets = PageOffsetsUpTo(attempt.T)
             /\ attempt.rows \subseteq db_committed']_vars

\* the first search reported exactly one page of results and the page at
\* offset T was fetched, flattened and inserted
C15_Witness ==
    /\ pc = "inserted"
    /\ attempt.T = results_per_page
    /\ query_offset = attempt.T
    /\ attempt.offsets = {0, results_per_page}

\* C16: the request of a search carries the key as name; it carries the
\* start-search button and no page number exactly when the offset is 0; for
\* an offset > 0 it carries the jump-to-page button with the page number
\* N = 1 + floor(offset / page size), the N with
\* (N - 1) * page size <= offset < N * page size.
C16_SearchRequest ==
    pc = "requested" =>
        \A r \in requests :
            /\ r.name = query_name
            /\ (r.btn = "btnhidden") = (query_offset = 0)
            /\ (r.btnpage = None) = (query_offset = 0)
            /\ query_offset > 0 =>
                   /\ r.btn = "btnpage"
                   /\ r.btnpage = 1 + (query_offset \div results_per_page)
                   /\ (r.btnpage - 1) * results_per_page <= query_offset
                   /\ query_offset < r.btnpage * results_per_page

\* a request for an offset inside the third page
C16_Witness ==
    /\ pc = "requested"
    /\ query_offset = 2 * results_per_page + 1
    /\ \E r \in requests : r.btnpage = 3

RECURSIVE NodeCount(_)
RECURSIVE NodeCountAll(_)

\* number of <address> elements of a tree
NodeCount(node) == 1 + NodeCountAll(node.address)

NodeCountAll(nodes) ==
    IF nodes = <<>> THEN 0
    ELSE NodeCount(Head(nodes)) + NodeCountAll(Tail(nodes))

RECURSIVE PreOrderAt(_, _, _)
RECURSIVE PreOrderAll(_, _, _)

\* the rows from position p on are the tree of node in depth-first
\* pre-order: the row of node first, with the given parent_id, then the
\* subtrees of its children from left to right, each under the id of node
PreOrderAt(node, p, parent_id) ==
    /\ p \in DOMAIN sql_rows
    /\ sql_rows[p].parent_id = parent_id
    /\ sql_rows[p].recordtype = node.recordtype
    /\ PreOrderAll(node.address, p + 1, sql_rows[p].id)

PreOrderAll(nodes, p, parent_id) ==
    \/ nodes = <<>>
    \/ /\ nodes # <<>>
       /\ PreOrderAt(Head(nodes), p, parent_id)
       /\ PreOrderAll(Tail(nodes), p + NodeCount(Head(nodes)), parent_id)

\* C17: the rows built for a page are, for each top-level node in turn,
\* the node's tree in depth-first pre-order: a node's row comes before the
\* rows of its children, the ids are consecutive in the order of emission
\* starting at MAX(id) + 1, the parent_id of a child's row is the id of the
\* row of its immediate parent node, and the parent_id of a top-level
\* node's row is null.
C17_PreOrder ==
    pc = "insert" =>
        /\ Len(sql_rows) = NodeCountAll(xml_bytes.addresses)
        /\ PreOrderAll(xml_bytes.addresses, 1, None)
        /\ \A j \in DOMAIN sql_rows : sql_rows[j].id = NextId(Table) + j - 1
        /\ \A j \in DOMAIN sql_rows :
              sql_rows[j].parent_id # None =>
                  \E q \in 1..(j - 1) : sql_rows[q].id = sql_rows[j].parent_id

\* a page with a tree of three levels: the grandchild's row follows the row
\* of its parent, and the row of the second child, which follows the
\* grandchild, names the top-level row
C17_Witness ==
    /\ pc = "insert"
    /\ \E j \in DOMAIN sql_rows :
          /\ j > 3
          /\ sql_rows[j - 3].parent_id = None
          /\ sql_rows[j - 1].parent_id = sql_rows[j - 2].id
          /\ sql_rows[j].parent_id = sql_rows[j - 3].id

\* C18: of the rows built for a page, every row with null parent_id has
\* query_child_num = 0, and every row with a parent_id is not the first row
\* and has the query_child_num of the row before it plus 1.
C18_ChildNumbers ==
    pc = "insert" =>
        \A j \in DOMAIN sql_rows :
            IF IsTopLevel(sql_rows[j])
            THEN sql_rows[j].query_child_num = 0
            ELSE /\ j > 1
                 /\ sql_rows[j].query_child_num =
                        sql_rows[j - 1].query_child_num + 1

\* a top-level row that follows a child row numbered 3
C18_Witness ==
    /\ pc = "insert"
    /\ \E j \in DOMAIN sql_rows :
          /\ j > 1
          /\ sql_rows[j - 1].query_child_num = 3
          /\ IsTopLevel(sql_rows[j])
          /\ sql_rows[j].query_child_num = 0

\* C19: the value stored for a column is null when the column's element is
\* absent or has no text, and the stored value is never the empty string,
\* whatever the text of the element, text of whitespace only included.
C19_NullNeverEmpty ==
    pc = "extracted" =>
        /\ (~elem_text.found \/ elem_text.text = <<>>) => row_col.null
        /\ ~row_col.null => row_col.text # <<>>

\* a column whose text is whitespace only is stored as the empty string
C19_Witness ==
    /\ pc = "extracted"
    /\ elem_text.found
    /\ elem_text.text # <<>>
    /\ ~row_col.null
    /\ row_col.text = <<>>

\* a search is waiting for its response
Searching == pc \in {"search", "fetch"}

\* C20: a response with the still-computing marker makes the client send
\* the same request again and changes nothing else; a request is sent only
\* while fewer than 1000 responses of the search carried the marker, so a
\* search sends at most 1000 requests; and after 1000 such responses the
\* search returns no result and the run ends: no request is sent, the
\* durable store is unchanged, the open batch is gone and the store shows
\* no row of the key in progress.
C20_PollUntilStall ==
    /\ [](retry_idx <= retry_limit)
    /\ []((pc = "aborted" /\ retry_idx = retry_limit) =>
             /\ err = "SystemExit"
             /\ db_batch = {}
             /\ db_committed = last_commit)
    /\ [][retry_idx' > retry_idx =>
             /\ Searching
             /\ retry_idx' = retry_idx + 1
             /\ requests' = requests \cup {Request(query_name, query_offset)}
             /\ retry_idx > 0 => requests' = requests
             /\ UNCHANGED <<pc, query_idx, query_offset, num_results,
                            db_committed, db_batch>>]_vars
    /\ [][(Searching /\ requests' # requests) =>
             retry_idx < retry_limit]_vars
    /\ [][(Searching /\ retry_idx = retry_limit) =>
             /\ pc' = "aborted"
             /\ requests' = requests
             /\ num_results' = -1
             /\ db_committed' = db_committed
             /\ db_batch' = {}
             /\ \A r \in db_committed' : r.query_name # query_name]_vars

\* the search of the second page of the second key was answered with the
\* marker 1000 times: the run ended, the rows of the first page were rolled
\* back, the rows of the first key stay
C20_Witness ==
    /\ pc = "aborted"
    /\ err = "SystemExit"
    /\ retry_idx = retry_limit
    /\ rolled_back
    /\ db_committed # {}

\* the server's page for the search in progress has no <hitcount> tag
AnswerWithoutCount ==
    /\ Searching
    /\ <<query_name, query_offset>> \in DOMAIN answers
    /\ answers[<<query_name, query_offset>>].hitcount = None

\* C21: when the server's page for the search in progress carries no
\* <hitcount> tag, the step that leaves the search ends the run: no result
\* is returned, the durable store is unchanged, the open batch is gone and
\* the store shows no row of the key; when the page was received (the run
\* was not killed and the polling loop did not run out) exactly the request
\* of that page was sent and no poll follows it; and a key one of whose
\* pages has no <hitcount> tag is never committed.
C21_MissingCount ==
    /\ [](\A p \in DOMAIN answers :
             answers[p].hitcount = None =>
                 /\ p[1] \notin DOMAIN complete
                 /\ \A r \in db_committed : r.query_name # p[1])
    /\ [][(AnswerWithoutCount /\ pc' # pc) =>
             /\ pc' = "aborted"
             /\ num_results' = -1
             /\ db_committed' = db_committed
             /\ db_batch' = {}
             /\ \A r \in db_committed' : r.query_name # query_name
             /\ (err' = "SystemExit" /\ retry_idx < retry_limit) =>
                    /\ requests' =
                           requests \cup {Request(query_name, query_offset)}
                    /\ retry_idx' = 0]_vars

\* the second page of the second key came without <hitcount> after two
\* polls: the run ended, the rows of the first page were rolled back, the
\* rows of the first key stay
C21_Witness ==
    /\ pc = "aborted"
    /\ err = "SystemExit"
    /\ retry_idx = 0
    /\ rolled_back
    /\ db_committed # {}
    /\ \E p \in DOMAIN answers :
          /\ answers[p].hitcount = None
          /\ p[2] > 0
          /\ Request(p[1], p[2]) \in requests

\* C23: a page from which the <perpage> tag is missing ends the run at the
\* page-size check: no row of the page is built or inserted, the open batch
\* is gone and the durable store is unchanged; and no key one of whose
\* pages came without the tag is ever committed.
C23_MissingPageSizeFatal ==
    /\ [][(pc = "flatten" /\ xml_bytes.perpage = None /\ pc' # pc) =>
             /\ pc' = "aborted"
             /\ sql_rows' = <<>>
             /\ db_batch' = {}
             /\ db_committed' = db_committed]_vars
    /\ [](\A k \in DOMAIN complete :
             \A p \in DOMAIN answers :
                 (p[1] = k /\ p[2] \in complete[k].offsets) =>
                     answers[p].perpage # None)

\* a key both of whose pages came without <perpage> tag is committed with
\* the rows of both pages
C23_Witness ==
    \E k \in DOMAIN complete :
        /\ complete[k].offsets = {0, results_per_page}
        /\ \A o \in complete[k].offsets :
              answers[<<k, o>>].perpage = None
        /\ \A o \in complete[k].offsets :
              \E r \in db_committed :
                  r.query_name = k /\ r.query_offset = o

\* the triples (query_name, query_offset, query_child_num) of a set of rows
Triples(rows) ==
    {<<r.query_name, r.query_offset, r.query_child_num>> : r \in rows}

\* C24: when a row of the page to insert has the (query_name, query_offset,
\* query_child_num) of a row already in the table, executemany ends the run
\* with IntegrityError: no row is ignored, replaced or skipped over, the
\* batch of the key in progress is rolled back and never committed, and
\* the committed rows are the same as before.
C24_ConflictFails ==
    /\ [][(/\ pc = "insert"
            /\ Triples(Range(sql_rows)) \cap Triples(Table) # {}
            /\ pc' # pc) =>
             /\ pc' = "aborted"
             /\ db_batch' = {}
             /\ db_committed' = db_committed
             /\ err' \in {"IntegrityError", "killed"}
             /\ query_name \notin DOMAIN complete']_vars
    /\ [](\A r, t \in Table : SameTriple(r, t) => r = t)

\* the second page of a key started at an offset the oversize first page
\* had used up: the run ended with IntegrityError, the rows of the first
\* page were rolled back
C24_Witness ==
    /\ pc = "aborted"
    /\ err = "IntegrityError"
    /\ rolled_back
    /\ db_batch = {}
    /\ \E p \in DOMAIN answers :
          /\ p[2] = 0
          /\ Len(answers[p].addresses) > results_per_page
          /\ Request(p[1], results_per_page) \in requests
          /\ \A r \in db_committed : r.query_name # p[1]

\* C30: no step removes or alters a committed row; the committed store
\* changes only at the commit of the key in progress, and then exactly by
\* the rows of the open batch, which all carry that key, a key without
\* committed rows before, and ids no committed row has.
C30_CommittedImmutable ==
    [][/\ db_committed \subseteq db_committed'
       /\ db_committed' # db_committed =>
            /\ pc = "inserted"
            /\ pc' = "next_key"
            /\ db_committed' \ db_committed = db_batch
            /\ \A r \in db_batch :
                  /\ r.query_name = query_name
                  /\ \A o \in db_committed :
                        o.id # r.id /\ o.query_name # r.query_name]_vars

\* a later run committed a key next to the rows an earlier run had left,
\* after a run that ended with an error
C30_Witness ==
    /\ pc = "next_key"
    /\ present_at_start # {}
    /\ \E r \in db_committed : r.query_name \notin present_at_start
    /\ \A k \in present_at_start : \E r \in db_committed : r.query_name = k

\* the positions of the log at which an event of one kind stands
EventsAt(ev) == {i \in DOMAIN trace : trace[i].ev = ev}

\* the run is over or in its exit handler
Ending == pc \in {"atexit", "exited"}

\* the events an ended run may still add: those of the exit handler
AfterOnlyCleanup(i) ==
    \A j \in DOMAIN trace : j > i => trace[j].ev \in {"killpg", "sleep"}

\* C22: once the response to the session request came without the session
\* tag, the run is ending with ValueError, no token was assigned, and the
\* log holds no preferences, save or search request, no insert and no
\* commit: after the response only the exit handler acts.
C22_NoSessionTag ==
    \A i \in DOMAIN trace :
        trace[i] = Event("sessionid", None) =>
            /\ Ending
            /\ err = "ValueError"
            /\ sessionid = -1
            /\ AfterOnlyCleanup(i)
            /\ \A j \in DOMAIN trace :
                  trace[j].ev \notin {"GET preferences", "GET save",
                                      "GET search", "executemany", "commit"}

\* a run ended on a session response without the tag, and the exit handler
\* stopped the service
C22_Witness ==
    /\ pc = "exited"
    /\ err = "ValueError"
    /\ \E i \in DOMAIN trace :
          /\ trace[i] = Event("sessionid", None)
          /\ trace[i - 1] = Event("status", 200)
          /\ i + 2 = Len(trace)
          /\ trace[i + 1].ev = "killpg"

\* the positions of the responses to the two requests of
\* set_results_per_page
ConfigureAnswers ==
    {i \in EventsAt("status") :
        i > 1 /\ trace[i - 1].ev \in {"GET preferences", "GET save"}}

C27_CleanupOnExit ==
    /\ []((pc = "exited" /\ err # "killed" /\ server_process # None) =>
            \E i \in EventsAt("Popen"), j \in EventsAt("killpg") :
                /\ i < j
                /\ trace[i].arg = server_process
                /\ trace[j].arg = server_process)
    /\ ((pc = "atexit") ~> (pc = "exited"))
    /\ [][(pc \notin {"off", "start_server", "atexit", "exited"}
           /\ pc' \in {"atexit", "exited"}) =>
             (err' # "killed" => pc' = "atexit")]_vars
    /\ [][(pc = "atexit" /\ server_process = None) =>
             /\ pc' = "exited"
             /\ err' = err
             /\ trace' = trace
             /\ service' = service]_vars

\* a run ended by sys.exit in the key loop, and the exit handler sent the
\* signal to the service started at the beginning
C27_Witness ==
    /\ pc = "exited"
    /\ err = "SystemExit"
    /\ server_process = Pid
    /\ trace[1] = Event("Popen", Pid)
    /\ trace[Len(trace) - 1] = Event("killpg", Pid)
    /\ ~service.up

\* some start of the service follows a stop in the log
Restarted ==
    \E i \in EventsAt("killpg"), j \in EventsAt("Popen") : i < j

\* C28 as stated: the service is started once at startup, and a run that
\* found the service failing has stopped and started it again.
C28_RestartOnFailure ==
    /\ Cardinality(EventsAt("Popen")) <= 1
    /\ (Ending /\ err = "ClientError") => Restarted

\* C28, amended: the service is started exactly once per run, as the first
\* thing the run does, followed by the settle delay; restart_server is
\* stop_server then start_server in that order, but no run invokes it: the
\* service is never started after a stop, the only stop is that of the
\* exit handler, and a run that finds the service failing ends.
C28_StartOnceNoRestart ==
    /\ Cardinality(EventsAt("Popen")) =
           IF server_process = None THEN 0 ELSE 1
    /\ server_process # None =>
           /\ trace[1] = Event("Popen", server_process)
           /\ trace[2] = Event("sleep", 2)
    /\ pc \in {"connect", "get_sessionid", "preferences",
               "save_preferences", "key_loop"} => server_process # None
    /\ ~Restarted
    /\ \A i \in EventsAt("killpg") : pc = "exited" /\ i + 1 = Len(trace)
    /\ err = "ClientError" => Ending
    /\ restart_server(trace, Pid) =
           trace \o <<Event("killpg", Pid), Event("sleep", 1),
                      Event("Popen", Pid), Event("sleep", 2)>>

\* the service died during the key loop: the run ended with the transport
\* error, the service was stopped by the exit handler and not started again
C28_Witness ==
    /\ pc = "exited"
    /\ err = "ClientError"
    /\ EventsAt("commit") # {}
    /\ trace[Len(trace) - 2].ev = "GET search"
    /\ trace[Len(trace) - 1].ev = "killpg"

\* the requests that carry the session token
TokenRequests ==
    {i \in DOMAIN trace :
        trace[i].ev \in {"GET preferences", "GET save", "GET search"}}

\* C29: every search request of a run comes after the start of the
\* service, the settle delay of 2 s, the response with the session token,
\* the preferences request and the save request, in that order; a run
\* sends the session request at most once and reads at most one token; and
\* every preferences, save and search request carries the token that
\* response held.
C29_StartupOrder ==
    /\ \A i \in EventsAt("GET search") :
          \E a \in EventsAt("Popen"), c \in EventsAt("sessionid"),
             d \in EventsAt("GET preferences"), e \in EventsAt("GET save") :
              /\ trace[a + 1] = Event("sleep", 2)
              /\ a + 1 < c
              /\ c < d
              /\ d < e
              /\ e < i
    /\ Cardinality(EventsAt("GET /")) <= 1
    /\ Cardinality(EventsAt("sessionid")) <= 1
    /\ \A i \in TokenRequests :
          \E c \in EventsAt("sessionid") :
              /\ c < i
              /\ trace[c].arg \in Tokens
              /\ trace[i].arg = trace[c].arg

\* the second key is being searched with the token 2 read at startup
C29_Witness ==
    /\ Cardinality(EventsAt("GET search")) = 2
    /\ Event("sessionid", 2) \in Range(trace)
    /\ \A i \in TokenRequests : trace[i].arg = 2
    /\ pc = "key_loop"

\* the offsets of the search requests the run has sent for the key in
\* progress
RequestedOffsets ==
    {r.offset : r \in {x \in requests : x.name = query_name}}

\* C31: the page loop of a key is fixed by the T > 0 of its first search:
\* the range of offsets never changes while the key is in progress and
\* holds 1 + floor(T / page size) offsets; the response of the first search
\* goes to flattening as the page of offset 0 without another request;
\* every later search is for an offset > 0 of the range that was not
\* requested before in the run and completes one more page, whatever total
\* its response reports; and at the commit the searches completed are
\* exactly one per offset of the range.
C31_PagesFixedByFirstTotal ==
    /\ [](InFlight /\ pc # "search" =>
            /\ Len(offsets) = 1 + (attempt.T \div results_per_page)
            /\ Range(offsets) = PageOffsetsUpTo(attempt.T)
            /\ Cardinality(RequestedOffsets) =
                   IF pc = "fetch" THEN loop_idx ELSE loop_idx + 1)
    /\ [][(pc = "search" /\ pc' \notin {"search", "next_key", "aborted"}) =>
             /\ pc' = "flatten"
             /\ query_offset' = 0
             /\ loop_idx' = 0
             /\ xml_bytes'.hitcount = attempt'.T
             /\ RequestedOffsets' = {0}]_vars
    /\ [][(pc = "flatten" /\ loop_idx = 0) => requests' = requests]_vars
    /\ [][(InFlight /\ pc # "search" /\ pc' \notin {"next_key", "aborted"})
             => (offsets' = offsets /\ attempt'.T = attempt.T)]_vars
    /\ [][(pc = "fetch" /\ pc' = "flatten") =>
             /\ query_offset > 0
             /\ query_offset \notin RequestedOffsets
             /\ RequestedOffsets' = RequestedOffsets \cup {query_offset}
             /\ query_offset' = query_offset]_vars
    /\ [][db_committed' # db_committed =>
             /\ RequestedOffsets = PageOffsetsUpTo(attempt.T)
             /\ Cardinality(RequestedOffsets) =
                    1 + (attempt.T \div results_per_page)]_vars

\* the first search reported one full page, the second page reported a
\* smaller total, and both pages were inserted
C31_Witness ==
    /\ pc = "inserted"
    /\ attempt.T = results_per_page
    /\ num_results < attempt.T
    /\ loop_idx = 1
    /\ RequestedOffsets = {0, results_per_page}

RECURSIVE TopAncestor(_, _)
\* the row without parent_id reached from a row along parent_id
TopAncestor(row, table) ==
    IF row.parent_id = None THEN row
    ELSE TopAncestor(CHOOSE p \in table : p.id = row.parent_id, table)

\* the position of the last top-level row of the page before position i
TopBefore(i) ==
    CHOOSE a \in 1..i :
        /\ IsTopLevel(sql_rows[a])
        /\ \A j \in (a + 1)..i : ~IsTopLevel(sql_rows[j])

\* C32: every row of the table with a parent_id carries the key of the
\* top-level row it descends from, that row's query_offset plus 1, and a
\* query_child_num >= 1; and in the rows built for a page, the top-level
\* row that follows a top-level row of offset q has offset q + 1 and
\* query_child_num 0, the offset its predecessor's descendants carry.
C32_ChildrenOneAhead ==
    /\ \A r \in Table :
          r.parent_id # None =>
              LET top == TopAncestor(r, Table)
              IN /\ top.parent_id = None
                 /\ r.query_name = top.query_name
                 /\ r.query_offset = top.query_offset + 1
                 /\ r.query_child_num >= 1
    /\ pc = "insert" =>
          \A i \in DOMAIN sql_rows :
              i > 1 =>
                  LET top == sql_rows[TopBefore(i - 1)]
                  IN /\ sql_rows[i].query_offset = top.query_offset + 1
                     /\ IsTopLevel(sql_rows[i]) =>
                            sql_rows[i].query_child_num = 0
                     /\ ~IsTopLevel(sql_rows[i]) =>
                            /\ sql_rows[i].query_child_num >= 1
                            /\ TopAncestor(sql_rows[i], Range(sql_rows))
                                   .id = top.id

\* a committed parent at offset q with its descendants under q + 1, beside
\* the next top-level row of the page, which has offset q + 1 too
C32_Witness ==
    \E top, child, grandchild, next \in db_committed :
        /\ top.parent_id = None
        /\ child.parent_id = top.id
        /\ grandchild.parent_id = child.id
        /\ next.parent_id = None
        /\ next.query_name = top.query_name
        /\ next.query_offset = top.query_offset + 1
        /\ child.query_offset = next.query_offset
        /\ grandchild.query_offset = next.query_offset
        /\ next.query_child_num = 0
        /\ grandchild.query_child_num > child.query_child_num

\* the keys that have a row in the database file
FileKeys == {r.query_name : r \in db_file}

\* C33: with two instances on one database file, the rows of a key reach
\* the file in one commit of one instance: the step that adds rows is taken
\* by the holder of the exclusive lock, adds exactly its batch, all rows of
\* the key it is at, a key without a row in the file, under ids greater
\* than every id in the file; the rows built for a page are built by the
\* lock holder from the file and its own batch; no step adds rows to a key
\* that has rows, and no two rows of the file share an id.
C33_OneInstancePerKey ==
    /\ [](\A r, q \in db_file : r.id = q.id => r = q)
    /\ [][db_file \subseteq db_file']_vars
    /\ [][\A k \in FileKeys :
             {r \in db_file' : r.query_name = k} =
             {r \in db_file : r.query_name = k}]_vars
    /\ [][db_file' # db_file =>
             \E i \in Instances :
                 /\ db_lock = i
                 /\ procs[i].pc = "commit"
                 /\ db_file' \ db_file = procs[i].batch
                 /\ \A j \in Instances \ {i} :
                       procs[j].batch = {} /\ ~InTransaction(j)
                 /\ \A r \in procs[i].batch :
                       /\ r.query_name = KeyOf(i)
                       /\ KeyOf(i) \notin FileKeys
                       /\ r.id > MaxId(db_file)]_vars
    /\ [][\A i \in Instances :
             procs'[i].batch # procs[i].batch /\ procs'[i].batch # {} =>
                 /\ db_lock = i
                 /\ db_lock' = i
                 /\ KeyOf(i) \notin FileKeys
                 /\ \A r \in procs'[i].batch \ procs[i].batch :
                       r.id > MaxId(db_file \cup procs[i].batch)]_vars

\* each instance has committed a key and waits for its next BEGIN
\* EXCLUSIVE: the first key was committed by the one, the second, under
\* greater ids, by the other, which had skipped the first
C33_Witness ==
    \E i, j \in Instances :
        /\ i # j
        /\ procs[i].pc = "begin"
        /\ procs[j].pc = "begin"
        /\ procs[i].query_idx = 1
        /\ procs[j].query_idx = 2
        /\ db_lock = 0
        /\ \E r, q \in db_file :
              /\ r.query_name = KeyList[1]
              /\ q.query_name = KeyList[2]
              /\ r.id < q.id

\* the server has answered the first search of key k, and reported 0
\* results or sent no <address> entry on any page of the key so far
EmptyKey(k) ==
    /\ <<k, 0>> \in DOMAIN answers
    /\ \/ answers[<<k, 0>>].hitcount = 0
       \/ \A p \in DOMAIN answers :
             p[1] = k => answers[p].addresses = <<>>

\* C34: a key for which the server reports 0 results, or sends pages
\* without <address> entry only, has no row in the table; when a run comes
\* to such a key, the server having answered for it before, the resume
\* check does not skip it, and the search that follows sends the
\* start-search request of the key again; a run that came to its end has
\* sent that request for every such key of the list.
C34_EmptyKeyAskedAgain ==
    /\ [](\A k \in Range(BuildQueryNameList(alphabet, length)) :
            EmptyKey(k) => \A r \in Table : r.query_name # k)
    /\ [](pc = "done" =>
            \A k \in Range(query_name_list) :
                EmptyKey(k) => Request(k, 0) \in requests)
    /\ [][(/\ pc = "next_key"
           /\ query_idx <= Len(query_name_list)
           /\ EmptyKey(query_name)
           /\ pc' # "aborted") =>
             /\ pc' = "search"
             /\ query_offset' = 0
             /\ query_idx' = query_idx]_vars
    /\ [][(/\ pc = "search"
           /\ pc' # "search"
           /\ err' # "killed") =>
             Request(query_name, 0) \in requests']_vars
    /\ [][(/\ pc = "inserted"
           /\ pc' = "next_key"
           /\ EmptyKey(query_name)) =>
             /\ db_committed' = db_committed
             /\ \A r \in db_committed' : r.query_name # query_name]_vars

\* a later run, started when the second key was in the store, came to its
\* end: the first key, whose only page holds no <address> entry, was
\* searched and committed again without a row
C34_Witness ==
    /\ pc = "done"
    /\ present_at_start = {query_name_list[2]}
    /\ EmptyKey(query_name_list[1])
    /\ answers[<<query_name_list[1], 0>>].hitcount > 0
    /\ Request(query_name_list[1], 0) \in requests
    /\ \A r \in db_committed : r.query_name = query_name_list[2]

\* C35: a run in progress comes to its end: it has returned after the last
\* key or it has aborted; until then the polling counter stays within
\* range(1000), the page loop within the range fixed at its start and the
\* key index within the key list; and a run that returned has, for every
\* key of the list, found it in the store or sent its first search.
C35_RunTerminates ==
    /\ Running ~> (pc \in {"done", "aborted"})
    /\ [](retry_idx \in 0..retry_limit)
    /\ [](Running =>
            /\ Len(query_name_list) =
                   Len(BuildQueryNameList(alphabet, length))
            /\ query_idx \in 1..(Len(query_name_list) + 1))
    /\ []((InFlight /\ pc # "search") =>
            /\ loop_idx \in 0..(Len(offsets) - 1)
            /\ query_offset = offsets[loop_idx + 1])
    /\ [](pc = "done" =>
            /\ err = ""
            /\ \A k \in Range(query_name_list) :
                  \/ \E r \in db_committed : r.query_name = k
                  \/ Request(k, 0) \in requests)

\* a run returned after it had polled, fetched two pages of every key and
\* committed every key
C35_Witness ==
    /\ pc = "done"
    /\ err = ""
    /\ \A k \in Range(query_name_list) :
          /\ Request(k, results_per_page) \in requests
          /\ \E r \in db_committed : r.query_name = k

\* the positions before i of the CSV at which a parent row stands
ParentsBefore(i) == {j \in 1..(i - 1) : csv_state.rows[j] = 1}

\* the position of the nearest parent row before position i, None if there
\* is none
NearestParent(i) ==
    IF ParentsBefore(i) = {} THEN None
    ELSE CHOOSE j \in ParentsBefore(i) : \A k \in ParentsBefore(i) : k <= j

\* C36: for every CSV and every batch size of at least one row, the table
\* holds after each batch the rows read so far in CSV order, and after the
\* last batch all of them; the i-th row has the id i the store gave it,
\* which is the id predicted for it, and the counter of predicted ids
\* stands one above the greatest id of the table; a child row has the id of
\* the nearest parent row before it in the CSV as parent_id (null when no
\* parent row precedes it), in whatever batch that parent row was, and a
\* parent or single row has null.
C36_CsvParentIds ==
    LET table == csv_state.table
    IN csv_state.pc # "off" =>
        /\ Len(table) = csv_state.reader
        /\ csv_state.next_rowid = Len(table) + 1
        /\ csv_state.pc = "done" => Len(table) = Len(csv_state.rows)
        /\ \A i \in DOMAIN table :
              /\ table[i].id = i
              /\ table[i].recordtype_int = csv_state.rows[i]
              /\ table[i].parent_id =
                     IF csv_state.rows[i] = 2 THEN NearestParent(i)
                     ELSE None

\* a CSV was imported whose parent row is the last row of one batch and
\* whose child row is the first row of the next batch
C36_Witness ==
    /\ csv_state.pc = "done"
    /\ csv_state.batch_size = 2
    /\ csv_state.rows = <<0, 1, 2, 0>>
    /\ csv_state.table[3].parent_id = 2

\* the last byte of the input is a newline
EndsWithNewline(content) ==
    content # <<>> /\ content[Len(content)] = Newline

\* C37: for every input file whose last line ends with a newline and every
\* chunk size of at least one byte, the file join_parts writes from the
\* parts of split_file is the input, byte for byte.
C37_RoundTrip ==
    (split_state.pc = "joined" /\ EndsWithNewline(split_state.input))
        => split_state.output = split_state.input

\* a file of two lines was split into two parts and joined again to the
\* file it was
C37_Witness ==
    /\ split_state.pc = "joined"
    /\ split_state.input = <<120, Newline, 120, Newline>>
    /\ split_state.chunk_size = 2
    /\ Cardinality(split_state.parts) = 2
    /\ split_state.output = split_state.input

RECURSIVE PartLines(_)
\* the lines of the part files, in the order of the parts
PartLines(part_files) ==
    IF part_files = <<>> THEN <<>>
    ELSE Lines(Head(part_files).content) \o PartLines(Tail(part_files))

\* every part is made of whole lines of the input, taken in order
WholeLines ==
    PartLines(SortedParts(split_state.parts)) = Lines(split_state.input)

\* C38 as stated: every part file written by split_file is at most
\* chunk_size bytes long and consists only of whole lines of the input.
C38_PartsWithinChunk ==
    split_state.pc = "split" =>
        /\ WholeLines
        /\ \A part \in split_state.parts :
              Len(part.content) <= split_state.chunk_size

\* C38: the parts written by split_file consist of whole lines of the
\* input in the order of the input, none left out and none twice; a part is
\* at most chunk_size bytes long unless it is a single line that is itself
\* longer than chunk_size, which is written whole into a part of its own.
C38_PartsOfWholeLines ==
    split_state.pc = "split" =>
        /\ WholeLines
        /\ \A part \in split_state.parts :
              \/ Len(part.content) <= split_state.chunk_size
              \/ Len(Lines(part.content)) = 1

\* a file with a line longer than the chunk size was split: the long line
\* has a part of its own, the short lines share one
C38_Witness ==
    /\ split_state.pc = "split"
    /\ split_state.chunk_size = 2
    /\ split_state.input = <<Newline, Newline, 120, 120, Newline>>
    /\ \E part \in split_state.parts : Len(part.content) = 3
    /\ \E part \in split_state.parts : Len(Lines(part.content)) = 2

====
